---- MODULE Spec2Model ----
(***************************************************************************)
(* A model of the ESLint rule no-server-imports                            *)
(* (packages/eslint-plugin-no-server-imports/src/index.ts).                *)
(*                                                                         *)
(* One analysis of one file is a run of the state machine: create() reads  *)
(* the options and the file name and decides whether any visitor callback  *)
(* is registered, the host then calls the callbacks in the order of a      *)
(* depth-first walk of the syntax tree, and 'Program:exit' reconciles what *)
(* was collected and reports.                                              *)
(*                                                                         *)
(* Strings the rule looks inside (module specifiers) are sequences of      *)
(* one-character strings; identifier names, which it only compares, are    *)
(* TLA+ strings.  A syntax node is named by its path from the Program      *)
(* node, so that node.parent is the path without its last step.            *)
(***************************************************************************)
EXTENDS Integers, Sequences, FiniteSets, TLC

\* ------------------------------------------------------------------------
\* Bounds of the model
\* ------------------------------------------------------------------------

\* longest module specifier drawn for the module classifier
MaxLen == 4

\* most declarations (imports, re-exports, requires) of an analysed file,
\* next to its marker, its reads and its callback
MaxDecls == 1

\* most calls of a method-call chain
MaxChain == 3

\* most analyses the host has finished before the one that is running
MaxRuns == 2

\* most lines of a source text a fix is offered for
MaxLines == 2

\* most fixes the host applies to one source text, one after the other
MaxFixes == 2

\* most folders of the editor's workspace
MaxFolders == 2

\* ------------------------------------------------------------------------
\* Module specifiers
\* ------------------------------------------------------------------------

fs == <<"f", "s">>
pg == <<"p", "g">>
os == <<"o", "s">>
fs_p == <<"f", "s", "/", "p">>
react == <<"r", "e", "a", "c", "t">>
server_only == <<"s", "e", "r", "v", "e", "r", "-", "o", "n", "l", "y">>

\* The entries of DEFAULT_SERVER_MODULES the inputs of the model can name
\* ('fs/promises' is listed next to 'fs' as in the source; it is cut to
\* 'fs/p' to stay within MaxLen).
DEFAULT_SERVER_MODULES == <<pg, fs, fs_p, os>>

Range(s) == {s[i] : i \in 1..Len(s)}

\* String.prototype.startsWith
StartsWith(s, prefix) ==
    /\ Len(prefix) <= Len(s)
    /\ SubSeq(s, 1, Len(prefix)) = prefix

\* a plausible slip: the subpath test without the '/' separator
isServerOnlyModuleNoSlash(serverModules, importSource) ==
    \/ importSource \in Range(serverModules)
    \/ \E i \in 1..Len(serverModules) : StartsWith(importSource, serverModules[i])

\* isServerOnlyModule: exact match in serverModuleSet, else some entry + '/'
\* is a prefix of the specifier
isServerOnlyModule(serverModules, importSource) ==
    \/ importSource \in Range(serverModules)
    \/ \E i \in 1..Len(serverModules) :
          StartsWith(importSource, serverModules[i] \o <<"/">>)

\* ------------------------------------------------------------------------
\* The syntax tree handed over by the host parser
\* ------------------------------------------------------------------------

Literal(v) == [type |-> "Literal", value |-> v]
Identifier(n) == [type |-> "Identifier", name |-> n]
\* o.p, with the name p; o[p], with the node p
MemberExpression(o, p) ==
    [type |-> "MemberExpression", object |-> o, property |-> p, computed |-> FALSE]
ComputedMemberExpression(o, p) ==
    [type |-> "MemberExpression", object |-> o, property |-> p, computed |-> TRUE]
CallExpression(c, args) == [type |-> "CallExpression", callee |-> c, arguments |-> args]
BlockStatement(stmts) == [type |-> "BlockStatement", body |-> stmts]
ArrowFunctionExpression(stmts) ==
    [type |-> "ArrowFunctionExpression", body |-> BlockStatement(stmts)]
FunctionExpression(stmts) ==
    [type |-> "FunctionExpression", body |-> BlockStatement(stmts)]
ExpressionStatement(e) == [type |-> "ExpressionStatement", expression |-> e]
VariableDeclarator(n, e) ==
    [type |-> "VariableDeclarator", id |-> Identifier(n), init |-> e]
VariableDeclaration(decls) == [type |-> "VariableDeclaration", declarations |-> decls]
ImportDefaultSpecifier(n) ==
    [type |-> "ImportDefaultSpecifier", importKind |-> "value", local |-> n]
ImportNamespaceSpecifier(n) ==
    [type |-> "ImportNamespaceSpecifier", importKind |-> "value", local |-> n]
ImportSpecifier(kind, n) == [type |-> "ImportSpecifier", importKind |-> kind, local |-> n]
ImportDeclaration(kind, specs, src) ==
    [type |-> "ImportDeclaration", importKind |-> kind, specifiers |-> specs,
     source |-> Literal(src)]
ExportSpecifier(kind, n) == [type |-> "ExportSpecifier", exportKind |-> kind, local |-> n]
ExportAllDeclaration(kind, src) ==
    [type |-> "ExportAllDeclaration", exportKind |-> kind, source |-> Literal(src)]
\* 'export { x } from m'; hasSource is FALSE for a local 'export { x }'
ExportNamedDeclaration(kind, specs, hasSource, src) ==
    [type |-> "ExportNamedDeclaration", exportKind |-> kind, specifiers |-> specs,
     hasSource |-> hasSource, source |-> Literal(src)]
Program(stmts) == [type |-> "Program", body |-> stmts]

\* The child nodes of a node, in the order the host visits them.  A step of
\* a path is an index into this sequence.
Children(n) ==
    CASE n.type = "Program" -> n.body
      [] n.type = "BlockStatement" -> n.body
      [] n.type = "ImportDeclaration" -> n.specifiers \o <<n.source>>
      [] n.type = "ExportAllDeclaration" -> <<n.source>>
      [] n.type = "ExportNamedDeclaration" ->
            n.specifiers \o (IF n.hasSource THEN <<n.source>> ELSE <<>>)
      [] n.type = "VariableDeclaration" -> n.declarations
      [] n.type = "VariableDeclarator" -> <<n.id, n.init>>
      [] n.type = "ExpressionStatement" -> <<n.expression>>
      [] n.type = "CallExpression" -> <<n.callee>> \o n.arguments
      [] n.type = "MemberExpression" ->
            IF n.computed THEN <<n.object, n.property>> ELSE <<n.object>>
      [] n.type \in {"ArrowFunctionExpression", "FunctionExpression"} -> <<n.body>>
      [] OTHER -> <<>>

RECURSIVE NodeFrom(_, _)
NodeFrom(n, path) ==
    IF path = <<>> THEN n ELSE NodeFrom(Children(n)[Head(path)], Tail(path))

\* the node a path names
NodeAt(prog, path) == NodeFrom(prog, path)

\* node.parent; the Program node has none
HasParent(path) == path # <<>>
Parent(path) == SubSeq(path, 1, Len(path) - 1)

\* paths of node.source, node.arguments[0], node.callee
SourceOf(prog, path) == path \o <<Len(Children(NodeAt(prog, path)))>>
ArgumentOf(path, i) == path \o <<i + 1>>

RECURSIVE WalkFrom(_, _, _)
\* depth-first, parents before children: the order of the host's traversal
WalkFrom(n, path, i) ==
    IF i = 0
      THEN <<path>> \o WalkFrom(n, path, 1)
      ELSE IF i > Len(Children(n))
             THEN <<>>
             ELSE WalkFrom(Children(n)[i], path \o <<i>>, 0) \o WalkFrom(n, path, i + 1)

Walk(prog) == WalkFrom(prog, <<>>, 0)

\* the node types the rule registers a callback for
Listened == {"ImportDeclaration", "CallExpression", "ExportAllDeclaration",
             "ExportNamedDeclaration"}

\* the nodes for which the host calls a callback of the rule, in order
VisitOrder(prog) == SelectSeq(Walk(prog), LAMBDA p : NodeAt(prog, p).type \in Listened)

\* ------------------------------------------------------------------------
\* The host's scope analysis: sourceCode.getDeclaredVariables and
\* variable.references
\* ------------------------------------------------------------------------

IsFunction(n) == n.type \in {"ArrowFunctionExpression", "FunctionExpression"}

RECURSIVE EnclosingScope(_, _)
\* the innermost function around a node (its path), <<>> for the module scope
EnclosingScope(prog, path) ==
    IF path = <<>>
      THEN <<>>
      ELSE IF IsFunction(NodeAt(prog, Parent(path)))
             THEN Parent(path)
             ELSE EnclosingScope(prog, Parent(path))

\* the names a declaration node introduces
DeclaredNames(n) ==
    CASE n.type = "ImportDeclaration" -> [i \in 1..Len(n.specifiers) |-> n.specifiers[i].local]
      [] n.type = "VariableDeclaration" ->
            [i \in 1..Len(n.declarations) |-> n.declarations[i].id.name]
      [] OTHER -> <<>>

\* the statements directly inside a scope
ScopeBody(prog, scope) ==
    IF scope = <<>> THEN prog.body ELSE NodeAt(prog, scope).body.body

\* a scope declares a name if a declaration directly inside it introduces it
Declares(prog, scope, name) ==
    \E i \in 1..Len(ScopeBody(prog, scope)) :
        name \in Range(DeclaredNames(ScopeBody(prog, scope)[i]))

Unresolved == <<0>>

\* a plausible slip: references are matched by name, so that a name the module
\* declares is the module's wherever it is read
ResolveFromByName(prog, scope, name) ==
    IF Declares(prog, <<>>, name) THEN <<>>
    ELSE IF Declares(prog, scope, name) THEN scope
    ELSE Unresolved

RECURSIVE ResolveFrom(_, _, _)
ResolveFrom(prog, scope, name) ==
    IF Declares(prog, scope, name)
      THEN scope
      ELSE IF scope = <<>> THEN Unresolved
                           ELSE ResolveFrom(prog, EnclosingScope(prog, scope), name)

\* the scope whose declaration an identifier refers to (the inner one wins)
Resolve(prog, path) ==
    ResolveFrom(prog, EnclosingScope(prog, path), NodeAt(prog, path).name)

\* an identifier that is the id of a declarator is written, not read
IsDeclaratorId(prog, path) ==
    /\ HasParent(path)
    /\ NodeAt(prog, Parent(path)).type = "VariableDeclarator"
    /\ path[Len(path)] = 1

\* variable.references: every identifier resolved to the variable
References(prog, scope, name) ==
    LET ids == SelectSeq(Walk(prog), LAMBDA p :
                   /\ NodeAt(prog, p).type = "Identifier"
                   /\ NodeAt(prog, p).name = name
                   /\ Resolve(prog, p) = scope)
    IN [i \in 1..Len(ids) |->
           [identifier |-> ids[i], isRead |-> ~IsDeclaratorId(prog, ids[i])]]

\* sourceCode.getDeclaredVariables(node)
getDeclaredVariables(prog, path) ==
    LET names == DeclaredNames(NodeAt(prog, path))
        scope == EnclosingScope(prog, path)
    IN [i \in 1..Len(names) |->
           [name |-> names[i], references |-> References(prog, scope, names[i])]]

\* ------------------------------------------------------------------------
\* Options and file selection
\* ------------------------------------------------------------------------

\* An optional option is <<>> when it is not given and <<v>> when it is.
Given(o) == o # <<>>
OrElse(o, d) == IF Given(o) THEN o[1] ELSE d

\* A glob of the shape '**/d1/d2/**' (kind "dir") or '**/*<ext>' (kind "ext")
DirGlob(names) == [kind |-> "dir", names |-> names, ext |-> ""]
ExtGlob(ext) == [kind |-> "ext", names |-> <<>>, ext |-> ext]

\* A file name: its directories, and the base name split at its first dot
FileName(dirs, base, ext) == [dirs |-> dirs, base |-> base, ext |-> ext]

DEFAULT_SERVER_FILE_PATTERNS ==
    <<ExtGlob(".server.ts"), ExtGlob(".server.tsx"), ExtGlob(".server.js"),
      DirGlob(<<"server">>), DirGlob(<<"api">>), DirGlob(<<"_server">>)>>

DEFAULT_CLIENT_FILE_PATTERNS ==
    <<DirGlob(<<"routes">>), DirGlob(<<"pages">>), DirGlob(<<"components">>),
      DirGlob(<<"islands">>), DirGlob(<<"src", "app">>)>>

DEFAULT_SERVER_FUNCTION_NAMES ==
    <<"createServerFn", "createIsomorphicFn", "server$", "action$", "loader$">>

\* picomatch for one glob of the two shapes above
GlobMatches(glob, file) ==
    IF glob.kind = "ext"
      THEN file.ext = glob.ext
      ELSE \E i \in 0..(Len(file.dirs) - Len(glob.names)) :
              SubSeq(file.dirs, i + 1, i + Len(glob.names)) = glob.names

\* picomatch(patterns)(filename)
isMatch(patterns, file) == \E i \in 1..Len(patterns) : GlobMatches(patterns[i], file)

\* create(): the merged options
serverFilePatternsOf(opts) ==
    DEFAULT_SERVER_FILE_PATTERNS \o OrElse(opts.serverFilePatterns, <<>>)
\* a plausible slip: the client patterns are merged like the server patterns
clientFilePatternsOfMerged(opts) ==
    DEFAULT_CLIENT_FILE_PATTERNS \o OrElse(opts.clientFilePatterns, <<>>)
clientFilePatternsOf(opts) == OrElse(opts.clientFilePatterns, DEFAULT_CLIENT_FILE_PATTERNS)
ignoreFilesOf(opts) == OrElse(opts.ignoreFiles, <<>>)
\* a plausible slip: the marker is looked at only when the option is given
checkServerOnlyMarkerOfDefaultOff(opts) == OrElse(opts.checkServerOnlyMarker, FALSE)
checkServerOnlyMarkerOf(opts) == OrElse(opts.checkServerOnlyMarker, TRUE)
checkServerFunctionsOf(opts) == OrElse(opts.checkServerFunctions, TRUE)
serverFunctionNamesOf(opts) == OrElse(opts.serverFunctionNames, DEFAULT_SERVER_FUNCTION_NAMES)
\* a plausible slip: the default of the option the other way round
reportUnusedImportsOfDefaultFalse(opts) == OrElse(opts.reportUnusedImports, FALSE)
reportUnusedImportsOf(opts) == OrElse(opts.reportUnusedImports, TRUE)
modeOf(opts) == OrElse(opts.mode, "client-only")
serverModulesOf(opts) ==
    DEFAULT_SERVER_MODULES \o OrElse(opts.serverModules, <<>>)
                           \o OrElse(opts.serverExternalPackages, <<>>)

shouldIgnoreFile(opts, file) ==
    /\ Len(ignoreFilesOf(opts)) > 0
    /\ isMatch(ignoreFilesOf(opts), file)

isServerFile(opts, file) == isMatch(serverFilePatternsOf(opts), file)

isClientFile(opts, file) == isMatch(clientFilePatternsOf(opts), file)

\* a plausible slip: the client patterns are looked at before the server ones
AnalysedClientFirst(opts, file) ==
    IF shouldIgnoreFile(opts, file) THEN FALSE
    ELSE IF isClientFile(opts, file) THEN TRUE
    ELSE IF isServerFile(opts, file) THEN FALSE
    ELSE modeOf(opts) # "client-only"

\* a plausible slip: the client patterns are required in either mode
AnalysedIgnoringMode(opts, file) ==
    IF shouldIgnoreFile(opts, file) THEN FALSE
    ELSE IF isServerFile(opts, file) THEN FALSE
    ELSE isClientFile(opts, file)

\* create() returns {} (no callbacks) for a file it does not analyse
Analysed(opts, file) ==
    IF shouldIgnoreFile(opts, file) THEN FALSE
    ELSE IF isServerFile(opts, file) THEN FALSE
    ELSE IF modeOf(opts) = "client-only" /\ ~isClientFile(opts, file) THEN FALSE
    ELSE TRUE

\* ------------------------------------------------------------------------
\* The rule's helper functions
\* ------------------------------------------------------------------------

\* a plausible slip: without the test for no specifiers, 'some' over nothing
\* answers false for a side-effect import
hasValueImportSpecifiersNoEmpty(node) ==
    IF node.importKind = "type" THEN FALSE
    ELSE \E i \in 1..Len(node.specifiers) :
            \/ node.specifiers[i].type = "ImportDefaultSpecifier"
            \/ node.specifiers[i].type = "ImportNamespaceSpecifier"
            \/ /\ node.specifiers[i].type = "ImportSpecifier"
               /\ node.specifiers[i].importKind # "type"

hasValueImportSpecifiers(node) ==
    IF node.importKind = "type" THEN FALSE
    ELSE IF Len(node.specifiers) = 0 THEN TRUE
    ELSE \E i \in 1..Len(node.specifiers) :
            \/ node.specifiers[i].type = "ImportDefaultSpecifier"
            \/ node.specifiers[i].type = "ImportNamespaceSpecifier"
            \/ /\ node.specifiers[i].type = "ImportSpecifier"
               /\ node.specifiers[i].importKind # "type"

\* a plausible slip: the inline 'type' of a specifier is not looked at
hasValueExportSpecifiersDeclOnly(node) == node.exportKind # "type"

hasValueExportSpecifiers(node) ==
    IF node.exportKind = "type" THEN FALSE
    ELSE IF Len(node.specifiers) = 0 THEN TRUE
    ELSE \E i \in 1..Len(node.specifiers) : node.specifiers[i].exportKind # "type"

\* a plausible slip: the inline 'type' of a specifier is not looked at
getValueImportNamesAll(node) ==
    IF node.importKind = "type" THEN {}
    ELSE {node.specifiers[i].local : i \in 1..Len(node.specifiers)}

\* the local names of the value specifiers (the code builds a Set of them)
getValueImportNames(node) ==
    IF node.importKind = "type" THEN {}
    ELSE {node.specifiers[i].local :
            i \in {j \in 1..Len(node.specifiers) :
                     \/ node.specifiers[j].type \in
                           {"ImportDefaultSpecifier", "ImportNamespaceSpecifier"}
                     \/ /\ node.specifiers[j].type = "ImportSpecifier"
                        /\ node.specifiers[j].importKind # "type"}}

\* a plausible slip: only the node and its parent are compared, not the chain
isNodeInsideScopeShallow(node, scopeNode) ==
    \/ node = scopeNode
    \/ HasParent(node) /\ Parent(node) = scopeNode

RECURSIVE isNodeInsideScope(_, _)
\* walks node, node.parent, ... up to the Program node
isNodeInsideScope(node, scopeNode) ==
    IF node = scopeNode THEN TRUE
    ELSE IF ~HasParent(node) THEN FALSE
    ELSE isNodeInsideScope(Parent(node), scopeNode)

isDirectivePrologue(node) ==
    /\ node.type = "ExpressionStatement"
    /\ node.expression.type = "Literal"

use_client == <<"u", "s", "e", " ", "c", "l", "i", "e", "n", "t">>
use_strict == <<"u", "s", "e", " ", "s", "t", "r", "i", "c", "t">>

RECURSIVE useClientFrom(_, _)
useClientFrom(body, i) ==
    IF i > Len(body) THEN FALSE
    ELSE IF ~isDirectivePrologue(body[i]) THEN FALSE
    ELSE IF body[i].expression.value = use_client THEN TRUE
    ELSE useClientFrom(body, i + 1)

hasUseClientDirective(prog) == useClientFrom(prog.body, 1)

\* a plausible slip: no suggestion when the file holds the marker already
createServerOnlyMarkerSuggestionUnlessMarked(prog) ==
    IF hasUseClientDirective(prog) THEN <<>>
    ELSE IF \E i \in 1..Len(prog.body) :
               /\ prog.body[i].type = "ImportDeclaration"
               /\ prog.body[i].source.value = server_only
           THEN <<>>
           ELSE <<"suggestServerOnlyMarker">>

\* the suggestions a report carries (their message ids)
createServerOnlyMarkerSuggestion(prog) ==
    IF hasUseClientDirective(prog) THEN <<>> ELSE <<"suggestServerOnlyMarker">>

NoNode == <<0>>

\* The text of a file is a sequence of tokens: 'import', ';', quoted strings,
\* blanks, line breaks and comments.  An offset into the text counts tokens.
Blank == {" ", "\n"}
Trivia == Blank \cup {"/*c*/"}

\* the quoted strings of the model and the value the parser gives each
Quoted == {"'fs'", "'server-only'", "\"server-only\"", "'use strict'", "'use client'"}
StringValue(token) ==
    CASE token = "'fs'" -> fs
      [] token \in {"'server-only'", "\"server-only\""} -> server_only
      [] token = "'use strict'" -> use_strict
      [] token = "'use client'" -> use_client

RECURSIVE SkipTrivia(_, _)
\* the first offset from i on that holds no blank, line break or comment
SkipTrivia(source, i) ==
    IF i > Len(source) THEN i
    ELSE IF source[i] \in Trivia THEN SkipTrivia(source, i + 1)
    ELSE i

\* the statement whose first token is at i: a string on its own, or an import
\* of a module for its side effects; range is node.range in tokens
StatementAt(source, i) ==
    LET j == IF source[i] = "import" THEN SkipTrivia(source, i + 1) ELSE i
        last == IF j < Len(source) /\ source[j + 1] = ";" THEN j + 1 ELSE j
    IN [node |-> IF source[i] = "import"
                   THEN ImportDeclaration("value", <<>>, StringValue(source[j]))
                   ELSE ExpressionStatement(Literal(StringValue(source[j]))),
        range |-> <<i - 1, last>>]

RECURSIVE StatementsFrom(_, _)
StatementsFrom(source, i) ==
    LET first == SkipTrivia(source, i)
    IN IF first > Len(source) THEN <<>>
       ELSE <<StatementAt(source, first)>> \o
            StatementsFrom(source, StatementAt(source, first).range[2] + 1)

\* sourceCode.ast for sourceCode.getText() = source
Parse(source) ==
    Program([k \in 1..Len(StatementsFrom(source, 1)) |-> StatementsFrom(source, 1)[k].node])

\* node.range[0] of a statement of the file
RangeStart(source, path) == StatementsFrom(source, 1)[path[1]].range[1]

\* /^import\s+['"]server-only['"]/m.test(text)
hasMarker(source) ==
    \E i \in 1..Len(source) :
        /\ i = 1 \/ source[i - 1] = "\n"
        /\ source[i] = "import"
        /\ \E j \in (i + 2)..Len(source) :
              /\ \A k \in (i + 1)..(j - 1) : source[k] \in Blank
              /\ source[j] \in {"'server-only'", "\"server-only\""}

RECURSIVE firstNonDirective(_, _)
firstNonDirective(body, insertIndex) ==
    IF insertIndex > Len(body) THEN insertIndex
    ELSE IF isDirectivePrologue(body[insertIndex])
           THEN firstNonDirective(body, insertIndex + 1)
           ELSE insertIndex

\* the statement to insert before, or NoNode for null
findServerOnlyMarkerInsertNode(prog) ==
    IF Len(prog.body) = 0 THEN NoNode
    ELSE IF firstNonDirective(prog.body, 1) > Len(prog.body) THEN NoNode
    ELSE <<firstNonDirective(prog.body, 1)>>

\* "import 'server-only';\n"
MarkerText == <<"import", " ", "'server-only'", ";", "\n">>

\* fixer.insertTextBeforeRange([at, at], inserted)
insertTextBeforeRange(at, inserted) == [at |-> at, inserted |-> inserted]

\* the fix of the suggestion: the edit it hands to the host
fix(source) ==
    IF hasMarker(source) THEN insertTextBeforeRange(0, <<>>)
    ELSE IF findServerOnlyMarkerInsertNode(Parse(source)) # NoNode
      THEN insertTextBeforeRange(
               RangeStart(source, findServerOnlyMarkerInsertNode(Parse(source))),
               MarkerText)
      ELSE insertTextBeforeRange(0, MarkerText)

\* the text after the host has applied an edit
Applied(source, edit) ==
    SubSeq(source, 1, edit.at) \o edit.inserted \o SubSeq(source, edit.at + 1, Len(source))

RECURSIVE findServerFunctionCall(_, _, _)
\* the root call of the chain a call ends, or NoNode
findServerFunctionCall(prog, names, node) ==
    LET callee == NodeAt(prog, node).callee
    IN IF callee.type = "Identifier" /\ callee.name \in Range(names)
         THEN node
         ELSE IF callee.type = "MemberExpression" /\ callee.object.type = "CallExpression"
                THEN findServerFunctionCall(prog, names, node \o <<1, 1>>)
                ELSE NoNode

\* a plausible slip: function expressions are forgotten next to arrow functions
CallbacksOfArrowsOnly(prog, node) ==
    LET args == NodeAt(prog, node).arguments
    IN {ArgumentOf(node, i) :
          i \in {j \in 1..Len(args) : args[j].type = "ArrowFunctionExpression"}}

\* the function arguments of one call
CallbacksOf(prog, node) ==
    LET args == NodeAt(prog, node).arguments
    IN {ArgumentOf(node, i) : i \in {j \in 1..Len(args) : IsFunction(args[j])}}

RECURSIVE extractCallbacksFromChain(_, _)
\* from a call upwards: while the parent is a member expression whose parent is
\* a call, go on with that call
extractCallbacksFromChain(prog, node) ==
    CallbacksOf(prog, node) \cup
      (IF /\ Len(node) >= 2
          /\ NodeAt(prog, Parent(node)).type = "MemberExpression"
          /\ NodeAt(prog, Parent(Parent(node))).type = "CallExpression"
         THEN extractCallbacksFromChain(prog, Parent(Parent(node)))
         ELSE {})

\* the string a require() call names: <<>> for none, else <<value>>
getRequireSource(call) ==
    IF /\ call.callee.type = "Identifier"
       /\ call.callee.name = "require"
       /\ Len(call.arguments) > 0
       /\ call.arguments[1].type = "Literal"
      THEN <<call.arguments[1].value>>
      ELSE <<>>

\* ------------------------------------------------------------------------
\* State of one analysis
\* ------------------------------------------------------------------------

VARIABLES
    phase,                      \* "idle", "traverse" (callbacks registered), "done"
    options,                    \* the rule's options, as given
    filename,                   \* context.getFilename()
    ast,                        \* sourceCode.ast
    queue,                      \* the nodes the host has still to visit
    hasServerOnlyImport,
    serverOnlyImports,          \* [module, node, variables]
    serverFunctionScopes,
    serverOnlyRequires,         \* [module, node, variables]
    bareRequireViolations,      \* [node, module]
    sideEffectImportViolations, \* [node, module]
    reexportViolations,         \* [node, module]
    reports,                    \* what context.report was called with, in order
    probe,                      \* a specifier put to the module classifier
    verdict,                    \* <<>> or <<its answer>>
    runs,                       \* the host's record of the analyses it has finished
    disk,                       \* the file system the framework detection looks at
    cachedFramework,            \* framework-detection.ts: <<>> for null
    cachedProjectRoot,          \* framework-detection.ts: <<>> for null
    call,                       \* <<>> or <<the last call of detectFramework>>
    earlier,                    \* what detectFramework returned since the last clear
    text,                       \* sourceCode.getText() of the file a fix is offered for
    edits,                      \* the fixes the host has applied to it, in order
    extension,                  \* the editor extension's module-level state
    workspaceFolders,           \* vscode.workspace.workspaceFolders, [] for none
    showStatusBarItem,          \* the setting noServerImports.showStatusBarItem
    command                     \* <<>> or <<the handler of the extension that ran last>>

\* the editor extension and the editor it runs in
editor == <<extension, workspaceFolders, showStatusBarItem, command>>

collected == <<hasServerOnlyImport, serverOnlyImports, serverFunctionScopes,
               serverOnlyRequires, bareRequireViolations,
               sideEffectImportViolations, reexportViolations>>

vars == <<phase, options, filename, ast, queue, hasServerOnlyImport,
          serverOnlyImports, serverFunctionScopes, serverOnlyRequires,
          bareRequireViolations, sideEffectImportViolations, reexportViolations,
          reports, probe, verdict, runs, disk, cachedFramework,
          cachedProjectRoot, call, earlier, text, edits, extension,
          workspaceFolders, showStatusBarItem, command>>

\* what an analysis of a file leaves alone
aside == <<runs, disk, cachedFramework, cachedProjectRoot, call, earlier, text, edits,
           editor>>

NoOptions ==
    [serverModules |-> <<>>, serverExternalPackages |-> <<>>,
     serverFilePatterns |-> <<>>, clientFilePatterns |-> <<>>, ignoreFiles |-> <<>>,
     checkServerOnlyMarker |-> <<>>, checkServerFunctions |-> <<>>,
     serverFunctionNames |-> <<>>, reportUnusedImports |-> <<>>, mode |-> <<>>]

NoFile == FileName(<<>>, "", "")

\* no analysis has started
Idle ==
    /\ phase = "idle"
    /\ options = NoOptions
    /\ filename = NoFile
    /\ ast = Program(<<>>)
    /\ queue = <<>>
    /\ hasServerOnlyImport = FALSE
    /\ serverOnlyImports = <<>>
    /\ serverFunctionScopes = {}
    /\ serverOnlyRequires = <<>>
    /\ bareRequireViolations = <<>>
    /\ sideEffectImportViolations = <<>>
    /\ reexportViolations = <<>>
    /\ reports = <<>>

\* no fix is in sight
NoText ==
    /\ text = <<>>
    /\ edits = <<>>

\* the extension as its module is loaded: nothing cached, no status bar item
Loaded ==
    [cachedFramework |-> <<>>, cachedProjectRoot |-> <<>>,
     frameworkCache |-> <<>>, statusBarItems |-> <<>>]

\* no editor is in sight
NoEditor ==
    /\ extension = Loaded
    /\ workspaceFolders = <<>>
    /\ showStatusBarItem = TRUE
    /\ command = <<>>

\* ------------------------------------------------------------------------
\* create(context, [options])
\* ------------------------------------------------------------------------

\* a plausible slip: the scope set lives outside create() and is never emptied
CreateSharingScopes(opts, file, prog) ==
    /\ phase = "idle"
    /\ options' = opts
    /\ filename' = file
    /\ ast' = prog
    /\ hasServerOnlyImport' = FALSE
    /\ serverOnlyImports' = <<>>
    /\ serverFunctionScopes' = serverFunctionScopes
    /\ serverOnlyRequires' = <<>>
    /\ bareRequireViolations' = <<>>
    /\ sideEffectImportViolations' = <<>>
    /\ reexportViolations' = <<>>
    /\ IF Analysed(opts, file)
         THEN /\ phase' = "traverse"
              /\ queue' = VisitOrder(prog)
         ELSE /\ phase' = "done"
              /\ queue' = <<>>
    /\ UNCHANGED <<reports, probe, verdict>>
    /\ UNCHANGED aside

Create(opts, file, prog) ==
    /\ phase = "idle"
    /\ options' = opts
    /\ filename' = file
    /\ ast' = prog
    /\ hasServerOnlyImport' = FALSE
    /\ serverOnlyImports' = <<>>
    /\ serverFunctionScopes' = {}
    /\ serverOnlyRequires' = <<>>
    /\ bareRequireViolations' = <<>>
    /\ sideEffectImportViolations' = <<>>
    /\ reexportViolations' = <<>>
    /\ IF Analysed(opts, file)
         THEN /\ phase' = "traverse"
              /\ queue' = VisitOrder(prog)
         ELSE /\ phase' = "done"
              /\ queue' = <<>>
    /\ UNCHANGED <<reports, probe, verdict>>
    /\ UNCHANGED aside

\* the host is about to call the callback for a node of this type
Visiting(type) ==
    /\ phase = "traverse"
    /\ queue # <<>>
    /\ NodeAt(ast, Head(queue)).type = type

Visited == /\ queue' = Tail(queue)
           /\ UNCHANGED <<phase, options, filename, ast, reports, probe, verdict>>
           /\ UNCHANGED aside

\* ------------------------------------------------------------------------
\* The visitor callbacks
\* ------------------------------------------------------------------------

ImportDeclarationVisit ==
    /\ Visiting("ImportDeclaration")
    /\ LET path == Head(queue)
           node == NodeAt(ast, path)
           source == node.source.value
           valueNames == getValueImportNames(node)
           declared == getDeclaredVariables(ast, path)
           variables == SelectSeq(declared, LAMBDA v : v.name \in valueNames)
       IN IF checkServerOnlyMarkerOf(options) /\ source = server_only
            THEN /\ hasServerOnlyImport' = TRUE
                 /\ UNCHANGED <<serverOnlyImports, sideEffectImportViolations>>
            ELSE IF ~isServerOnlyModule(serverModulesOf(options), source)
            THEN UNCHANGED <<hasServerOnlyImport, serverOnlyImports,
                             sideEffectImportViolations>>
            ELSE IF ~hasValueImportSpecifiers(node)
            THEN UNCHANGED <<hasServerOnlyImport, serverOnlyImports,
                             sideEffectImportViolations>>
            ELSE IF Len(node.specifiers) = 0
            THEN /\ sideEffectImportViolations' =
                        Append(sideEffectImportViolations, [node |-> path, module |-> source])
                 /\ UNCHANGED <<hasServerOnlyImport, serverOnlyImports>>
            ELSE /\ serverOnlyImports' =
                        IF Len(variables) > 0
                          THEN Append(serverOnlyImports,
                                      [module |-> source, node |-> path,
                                       variables |-> variables])
                          ELSE serverOnlyImports
                 /\ UNCHANGED <<hasServerOnlyImport, sideEffectImportViolations>>
    /\ UNCHANGED <<serverFunctionScopes, serverOnlyRequires, bareRequireViolations,
                   reexportViolations>>
    /\ Visited

CallExpressionVisit ==
    /\ Visiting("CallExpression")
    /\ LET path == Head(queue)
           node == NodeAt(ast, path)
           requireSource == getRequireSource(node)
           parent == NodeAt(ast, Parent(path))
           varDecl == Parent(Parent(path))
           tracked == /\ Len(path) >= 2
                      /\ parent.type = "VariableDeclarator"
                      /\ NodeAt(ast, varDecl).type = "VariableDeclaration"
                      /\ Len(getDeclaredVariables(ast, varDecl)) > 0
           serverFnCall == findServerFunctionCall(ast, serverFunctionNamesOf(options), path)
       IN \* 'if (requireSource)': a string that is not empty
          IF Given(requireSource) /\ requireSource[1] # <<>>
            THEN IF checkServerOnlyMarkerOf(options) /\ requireSource[1] = server_only
                   THEN /\ hasServerOnlyImport' = TRUE
                        /\ UNCHANGED <<serverOnlyRequires, bareRequireViolations,
                                       serverFunctionScopes>>
                   ELSE IF ~isServerOnlyModule(serverModulesOf(options), requireSource[1])
                   THEN UNCHANGED <<hasServerOnlyImport, serverOnlyRequires,
                                    bareRequireViolations, serverFunctionScopes>>
                   ELSE IF tracked
                   THEN /\ serverOnlyRequires' =
                               Append(serverOnlyRequires,
                                      [module |-> requireSource[1], node |-> path,
                                       variables |-> getDeclaredVariables(ast, varDecl)])
                        /\ UNCHANGED <<hasServerOnlyImport, bareRequireViolations,
                                       serverFunctionScopes>>
                   ELSE /\ bareRequireViolations' =
                               Append(bareRequireViolations,
                                      [node |-> ArgumentOf(path, 1),
                                       module |-> requireSource[1]])
                        /\ UNCHANGED <<hasServerOnlyImport, serverOnlyRequires,
                                       serverFunctionScopes>>
            ELSE /\ serverFunctionScopes' =
                        IF checkServerFunctionsOf(options) /\ serverFnCall # NoNode
                          THEN serverFunctionScopes \cup extractCallbacksFromChain(ast, path)
                          ELSE serverFunctionScopes
                 /\ UNCHANGED <<hasServerOnlyImport, serverOnlyRequires,
                                bareRequireViolations>>
    /\ UNCHANGED <<serverOnlyImports, sideEffectImportViolations, reexportViolations>>
    /\ Visited

ExportAllDeclarationVisit ==
    /\ Visiting("ExportAllDeclaration")
    /\ LET path == Head(queue)
           node == NodeAt(ast, path)
           source == node.source.value
       IN reexportViolations' =
            IF /\ node.exportKind # "type"
               /\ isServerOnlyModule(serverModulesOf(options), source)
              THEN Append(reexportViolations,
                          [node |-> SourceOf(ast, path), module |-> source])
              ELSE reexportViolations
    /\ UNCHANGED <<hasServerOnlyImport, serverOnlyImports, serverFunctionScopes,
                   serverOnlyRequires, bareRequireViolations, sideEffectImportViolations>>
    /\ Visited

ExportNamedDeclarationVisit ==
    /\ Visiting("ExportNamedDeclaration")
    /\ LET path == Head(queue)
           node == NodeAt(ast, path)
           source == node.source.value
       IN reexportViolations' =
            IF /\ node.hasSource
               /\ isServerOnlyModule(serverModulesOf(options), source)
               /\ hasValueExportSpecifiers(node)
              THEN Append(reexportViolations,
                          [node |-> SourceOf(ast, path), module |-> source])
              ELSE reexportViolations
    /\ UNCHANGED <<hasServerOnlyImport, serverOnlyImports, serverFunctionScopes,
                   serverOnlyRequires, bareRequireViolations, sideEffectImportViolations>>
    /\ Visited

\* ------------------------------------------------------------------------
\* 'Program:exit'
\* ------------------------------------------------------------------------

\* a plausible slip: a registered scope confines every node of the file
isInsideServerScopeAnywhere(scopes, node) == scopes # {}

isInsideServerScope(scopes, node) ==
    \E scope \in scopes : isNodeInsideScope(node, scope)

\* variable.references.filter((reference) => reference.isRead())
valueReferences(variable) == SelectSeq(variable.references, LAMBDA r : r.isRead)

\* a plausible slip: one confined read is enough
hasClientUsageNone(scopes, variable) ==
    \A i \in 1..Len(valueReferences(variable)) :
        ~isInsideServerScope(scopes, valueReferences(variable)[i].identifier)

hasClientUsage(scopes, variable) ==
    \E i \in 1..Len(valueReferences(variable)) :
        ~isInsideServerScope(scopes, valueReferences(variable)[i].identifier)

\* one turn of the loop over the variables of a declaration
variableViolates(scopes, reportUnused, variable) ==
    IF Len(valueReferences(variable)) = 0
      THEN reportUnused
      ELSE hasClientUsage(scopes, variable)

\* the loop leaves at the first variable that violates
hasViolation(scopes, reportUnused, variables) ==
    \E i \in 1..Len(variables) : variableViolates(scopes, reportUnused, variables[i])

Report(node, messageId, module) ==
    [node |-> node, messageId |-> messageId, module |-> module,
     suggest |-> createServerOnlyMarkerSuggestion(ast)]

sideEffectReports ==
    [i \in 1..Len(sideEffectImportViolations) |->
        Report(sideEffectImportViolations[i].node, "serverOnlyImport",
               sideEffectImportViolations[i].module)]

reexportReports ==
    [i \in 1..Len(reexportViolations) |->
        Report(reexportViolations[i].node, "serverOnlyImport",
               reexportViolations[i].module)]

\* a plausible slip: a bare require is reported wherever it stands
bareRequireReportsAnywhere ==
    [i \in 1..Len(bareRequireViolations) |->
        Report(bareRequireViolations[i].node, "serverOnlyRequire",
               bareRequireViolations[i].module)]

bareRequireReports ==
    LET outside == SelectSeq(bareRequireViolations,
                       LAMBDA v : ~isInsideServerScope(serverFunctionScopes, v.node))
    IN [i \in 1..Len(outside) |->
           Report(outside[i].node, "serverOnlyRequire", outside[i].module)]

\* a plausible slip: only the reads of the variables are looked at, not the
\* place of the require call
requireReportsByReadsOnly ==
    LET bad == SelectSeq(serverOnlyRequires, LAMBDA r :
                   hasViolation(serverFunctionScopes, reportUnusedImportsOf(options),
                                r.variables))
    IN [i \in 1..Len(bad) |->
           Report(ArgumentOf(bad[i].node, 1), "serverOnlyRequire", bad[i].module)]

requireReports ==
    LET bad == SelectSeq(serverOnlyRequires, LAMBDA r :
                   /\ ~isInsideServerScope(serverFunctionScopes, r.node)
                   /\ hasViolation(serverFunctionScopes, reportUnusedImportsOf(options),
                                   r.variables))
    IN [i \in 1..Len(bad) |->
           Report(ArgumentOf(bad[i].node, 1), "serverOnlyRequire", bad[i].module)]

RECURSIVE Flattened(_)
Flattened(lists) == IF lists = <<>> THEN <<>> ELSE Head(lists) \o Flattened(Tail(lists))

\* a plausible slip: the loop over the variables reports inside its body, once
\* for every variable that violates
importReportsPerVariable ==
    Flattened([i \in 1..Len(serverOnlyImports) |->
        LET r == serverOnlyImports[i]
            bad == SelectSeq(r.variables, LAMBDA v :
                       variableViolates(serverFunctionScopes,
                                        reportUnusedImportsOf(options), v))
        IN [k \in 1..Len(bad) |->
               Report(SourceOf(ast, r.node), "serverOnlyImport", r.module)]])

\* a plausible slip: an import is judged in one forward pass, by the scopes
\* registered before it
importReportsForwardOnly ==
    LET bad == SelectSeq(serverOnlyImports, LAMBDA r :
                   hasViolation({sc \in serverFunctionScopes : sc[1] < r.node[1]},
                                reportUnusedImportsOf(options), r.variables))
    IN [i \in 1..Len(bad) |->
           Report(SourceOf(ast, bad[i].node), "serverOnlyImport", bad[i].module)]

importReports ==
    LET bad == SelectSeq(serverOnlyImports, LAMBDA r :
                   hasViolation(serverFunctionScopes, reportUnusedImportsOf(options),
                                r.variables))
    IN [i \in 1..Len(bad) |->
           Report(SourceOf(ast, bad[i].node), "serverOnlyImport", bad[i].module)]

\* a plausible slip (the rule's tests guard against it): side-effect imports
\* are reported before the marker is looked at
exitReportsSideEffectsFirst ==
    sideEffectReports \o
      (IF hasServerOnlyImport
         THEN <<>>
         ELSE reexportReports \o bareRequireReports \o requireReports \o importReports)

\* everything 'Program:exit' reports, in order
exitReports ==
    IF hasServerOnlyImport
      THEN <<>>
      ELSE sideEffectReports \o reexportReports \o bareRequireReports
                             \o requireReports \o importReports

ProgramExit ==
    /\ phase = "traverse"
    /\ queue = <<>>
    /\ phase' = "done"
    /\ reports' = reports \o exitReports
    /\ UNCHANGED <<options, filename, ast, queue, probe, verdict>>
    /\ UNCHANGED collected
    /\ UNCHANGED aside

\* ------------------------------------------------------------------------
\* Framework detection (framework-detection.ts)
\* ------------------------------------------------------------------------

\* A directory is the sequence of its names from the file system root, <<>>.
\* path.dirname
dirname(dir) == IF dir = <<>> THEN <<>> ELSE SubSeq(dir, 1, Len(dir) - 1)

\* the directories of the modelled file system, and the two that can hold a
\* project
Directories == {<<>>, <<"p">>, <<"p", "src">>, <<"q">>}
ProjectDirs == {<<"p">>, <<"q">>}

\* process.cwd()
cwd == <<"q">>

\* package.json as the file system holds it: missing, present but not
\* readable, text that is no JSON, or the value JSON.parse gives
Missing == [state |-> "missing"]
Unreadable == [state |-> "unreadable"]
Malformed == [state |-> "malformed"]
JsonNull == [state |-> "json", null |-> TRUE, dependencies |-> <<>>, devDependencies |-> <<>>]
\* an object; a member is <<>> when absent, else <<a function from names to
\* version strings>>
JsonObject(deps, devDeps) ==
    [state |-> "json", null |-> FALSE, dependencies |-> deps, devDependencies |-> devDeps]

ConfigFile(base, ext) == [base |-> base, ext |-> ext]

\* what one project directory holds
Layout(configs, pkg) == [configs |-> configs, pkg |-> pkg]

\* existsSync(path.join(dir, name))
existsPackageJson(fsys, dir) ==
    dir \in ProjectDirs /\ fsys[dir].pkg.state # "missing"
existsConfig(fsys, dir, base, ext) ==
    dir \in ProjectDirs /\ ConfigFile(base, ext) \in fsys[dir].configs

RECURSIVE findProjectRoot(_, _)
\* <<>> for null
findProjectRoot(fsys, current) ==
    IF current = dirname(current) THEN <<>>
    ELSE IF existsPackageJson(fsys, current) THEN <<current>>
    ELSE findProjectRoot(fsys, dirname(current))

extensions == <<".js", ".mjs", ".cjs", ".ts", ".mts">>

configExists(fsys, dir, baseName) ==
    \E i \in 1..Len(extensions) : existsConfig(fsys, dir, baseName, extensions[i])

\* { ...pkg.dependencies, ...pkg.devDependencies }
allDeps(pkg) ==
    LET deps == OrElse(pkg.dependencies, <<>>)
        devDeps == OrElse(pkg.devDependencies, <<>>)
    IN [name \in DOMAIN deps \cup DOMAIN devDeps |->
           IF name \in DOMAIN devDeps THEN devDeps[name] ELSE deps[name]]

\* 'if (allDeps[name])': the entry is there and its version is not ''
Truthy(deps, name) == name \in DOMAIN deps /\ deps[name] # ""

\* the body of the try block: "throw" when readFileSync, JSON.parse or the
\* member access throws, "fallthrough" when it runs to its end
dependencyCheck(pkg) ==
    IF pkg.state \in {"unreadable", "malformed"} THEN "throw"
    ELSE IF pkg.null THEN "throw"
    ELSE IF Truthy(allDeps(pkg), "next") THEN "next"
    ELSE IF Truthy(allDeps(pkg), "@sveltejs/kit") THEN "sveltekit"
    ELSE IF Truthy(allDeps(pkg), "astro") THEN "astro"
    ELSE "fallthrough"

checkPackageJsonDependencies(fsys, projectRoot) ==
    IF ~existsPackageJson(fsys, projectRoot) THEN "unknown"
    ELSE IF dependencyCheck(fsys[projectRoot].pkg) \in {"throw", "fallthrough"}
           THEN "unknown"
           ELSE dependencyCheck(fsys[projectRoot].pkg)

checkConfigFiles(fsys, projectRoot) ==
    IF configExists(fsys, projectRoot, "next.config") THEN "next"
    ELSE IF configExists(fsys, projectRoot, "svelte.config") THEN "sveltekit"
    ELSE IF configExists(fsys, projectRoot, "astro.config") THEN "astro"
    ELSE "unknown"

\* existsSync(filePath) && statSync(filePath).isDirectory()
isDirectory(filePath) == filePath \in Directories

\* the start directory and the project root of a call; filePath is <<>> when
\* the argument is left out, else <<path>>
startDirOf(filePath) ==
    IF ~Given(filePath) THEN cwd
    ELSE IF isDirectory(filePath[1]) THEN filePath[1]
    ELSE dirname(filePath[1])

projectRootOf(fsys, filePath) == OrElse(findProjectRoot(fsys, startDirOf(filePath)), cwd)

\* a plausible slip: the cached root is not compared with the root of the call
cacheHitAnyRoot(projectRoot) == cachedFramework # <<>>

\* a plausible slip: '=== null' for '!== null', and the cache never answers
cacheHitInverted(projectRoot) ==
    cachedProjectRoot = <<projectRoot>> /\ cachedFramework = <<>>

\* the cache answers
cacheHit(projectRoot) ==
    cachedProjectRoot = <<projectRoot>> /\ cachedFramework # <<>>

\* config files first, package.json when they say 'unknown'
detect(fsys, projectRoot) ==
    IF checkConfigFiles(fsys, projectRoot) = "unknown"
      THEN checkPackageJsonDependencies(fsys, projectRoot)
      ELSE checkConfigFiles(fsys, projectRoot)

\* what the call looks at on the file system
consults(fsys, projectRoot) ==
    {"package.json exists"} \cup
      (IF cacheHit(projectRoot) THEN {}
       ELSE {"config files"} \cup
              (IF checkConfigFiles(fsys, projectRoot) = "unknown"
                 THEN {"package.json"} ELSE {}))

\* no project holds anything, nothing is cached, nothing was called
EmptyDisk == [dir \in ProjectDirs |-> Layout({}, Missing)]
NeverCalled == [dir \in ProjectDirs |-> <<>>]

DetectionIdle ==
    /\ cachedFramework = <<>>
    /\ cachedProjectRoot = <<>>
    /\ call = <<>>
    /\ earlier = NeverCalled

detectFramework(filePath) ==
    LET projectRoot == projectRootOf(disk, filePath)
        framework == IF cacheHit(projectRoot) THEN cachedFramework[1]
                                              ELSE detect(disk, projectRoot)
    IN /\ cachedProjectRoot' = <<projectRoot>>
       /\ cachedFramework' = <<framework>>
       /\ call' = <<[filePath |-> filePath, projectRoot |-> projectRoot,
                     framework |-> framework, hit |-> cacheHit(projectRoot),
                     consulted |-> consults(disk, projectRoot),
                     saw |-> disk[projectRoot],
                     before |-> earlier[projectRoot],
                     previous |-> IF call = <<>> THEN <<>>
                                  ELSE <<[projectRoot |-> call[1].projectRoot,
                                          framework |-> call[1].framework]>>]>>
       /\ earlier' = IF earlier[projectRoot] = <<>>
                       THEN [earlier EXCEPT ![projectRoot] = <<framework>>]
                       ELSE earlier
       /\ UNCHANGED <<disk, runs, probe, verdict, phase, options, filename, ast,
                      queue, reports, text, edits, editor>>
       /\ UNCHANGED collected

clearFrameworkCache ==
    /\ cachedFramework' = <<>>
    /\ cachedProjectRoot' = <<>>
    /\ call' = <<>>
    /\ earlier' = NeverCalled
    /\ UNCHANGED <<disk, runs, probe, verdict, phase, options, filename, ast,
                   queue, reports, text, edits, editor>>
    /\ UNCHANGED collected

\* ------------------------------------------------------------------------
\* The files and options the analyses are run on
\* ------------------------------------------------------------------------

\* all sequences over S of length at most n
RECURSIVE SeqsUpTo(_, _)
SeqsUpTo(S, n) ==
    IF n = 0 THEN {<<>>}
    ELSE LET shorter == SeqsUpTo(S, n - 1)
         IN shorter \cup {Append(q, x) : q \in {r \in shorter : Len(r) = n - 1}, x \in S}

\* name();  -- a read of name
Use(name) == ExpressionStatement(CallExpression(Identifier(name), <<>>))
Uses(names) == [i \in 1..Len(names) |-> Use(names[i])]

\* const name = require('m');   require('m');
RequireCall(m) == CallExpression(Identifier("require"), <<Literal(m)>>)
ConstRequire(name, m) == VariableDeclaration(<<VariableDeclarator(name, RequireCall(m))>>)
BareRequire(m) == ExpressionStatement(RequireCall(m))

\* createServerFn().handler(() => { stmts });
Handler(stmts) ==
    ExpressionStatement(
        CallExpression(
            MemberExpression(CallExpression(Identifier("createServerFn"), <<>>), "handler"),
            <<ArrowFunctionExpression(stmts)>>))

\* other(() => { stmts });  -- a callback of a call that is no server function
Plain(stmts) ==
    ExpressionStatement(
        CallExpression(Identifier("other"), <<ArrowFunctionExpression(stmts)>>))

ImportShapes ==
    {ImportDeclaration("value", <<ImportDefaultSpecifier("a")>>, fs),
     ImportDeclaration("value", <<ImportNamespaceSpecifier("a")>>, fs),
     ImportDeclaration("value", <<ImportSpecifier("value", "a"),
                                  ImportSpecifier("value", "b")>>, fs_p),
     ImportDeclaration("value", <<>>, fs),
     ImportDeclaration("type", <<ImportSpecifier("value", "a")>>, fs),
     ImportDeclaration("value", <<ImportSpecifier("type", "a")>>, fs),
     ImportDeclaration("value", <<ImportSpecifier("type", "a"),
                                  ImportSpecifier("value", "b")>>, fs),
     ImportDeclaration("value", <<ImportDefaultSpecifier("a")>>, react)}

ExportShapes ==
    {ExportAllDeclaration("value", fs),
     ExportAllDeclaration("type", fs),
     ExportNamedDeclaration("value", <<ExportSpecifier("value", "x")>>, TRUE, fs),
     ExportNamedDeclaration("type", <<ExportSpecifier("value", "x")>>, TRUE, fs),
     ExportNamedDeclaration("value", <<ExportSpecifier("type", "x")>>, TRUE, fs),
     ExportNamedDeclaration("value", <<ExportSpecifier("type", "x"),
                                       ExportSpecifier("value", "y")>>, TRUE, fs),
     ExportNamedDeclaration("value", <<ExportSpecifier("value", "x")>>, FALSE, <<>>),
     ExportAllDeclaration("value", react)}

RequireShapes == {ConstRequire("a", fs), BareRequire(fs), ConstRequire("a", react)}

\* every kind of declaration the rule tells apart
DeclShapes == ImportShapes \cup ExportShapes \cup RequireShapes

\* the declarations that bind names, next to one re-export of each kind
BindingShapes ==
    ImportShapes \cup RequireShapes \cup
    {ExportAllDeclaration("value", fs),
     ExportNamedDeclaration("value", <<ExportSpecifier("value", "x")>>, TRUE, fs)}

\* import 'server-only';   require('server-only');
MarkerImport == ImportDeclaration("value", <<>>, server_only)
MarkerRequire == BareRequire(server_only)

\* no marker, or one before or after the declarations
MarkerPlacements ==
    {<<<<>>, <<>>>>, <<<<MarkerImport>>, <<>>>>, <<<<MarkerRequire>>, <<>>>>,
     <<<<>>, <<MarkerImport>>>>, <<<<>>, <<MarkerRequire>>>>}

ReadSets == {<<>>, <<"a">>, <<"b">>, <<"a", "b">>}

Callbacks == {<<>>} \cup {<<Handler(Uses(r))>> : r \in ReadSets}
                    \cup {<<Plain(Uses(<<"a", "b">>))>>}

\* files without marker: declarations that bind names, then the reads at top
\* level, then the callback
Files ==
    {Program(decls \o Uses(top) \o cb) :
        decls \in SeqsUpTo(BindingShapes, MaxDecls),
        top \in ReadSets,
        cb \in Callbacks}

Toggle == {<<>>, <<FALSE>>}

OptionSets ==
    {[NoOptions EXCEPT !.checkServerFunctions = f, !.reportUnusedImports = u] :
        f \in Toggle, u \in Toggle}

\* /app/src/routes/index.tsx
ClientFile == FileName(<<"app", "src", "routes">>, "index", ".tsx")

Init ==
    /\ Idle
    /\ probe = <<>>
    /\ verdict = <<>>
    /\ runs = {}
    /\ disk = EmptyDisk
    /\ DetectionIdle
    /\ NoText
    /\ NoEditor

\* the host starts the analysis of some file under some options
Analyse ==
    /\ phase = "idle"
    /\ \E opts \in OptionSets, prog \in Files : Create(opts, ClientFile, prog)

Next ==
    \/ Analyse
    \/ ImportDeclarationVisit
    \/ CallExpressionVisit
    \/ ExportAllDeclarationVisit
    \/ ExportNamedDeclarationVisit
    \/ ProgramExit

Spec == Init /\ [][Next]_vars

\* ------------------------------------------------------------------------
\* Every kind of declaration, with and without the marker
\* ------------------------------------------------------------------------

\* the marker (or none) before or after the declarations, then a read at top
\* level or none, then a callback or none
DeclFiles ==
    {Program(m[1] \o decls \o m[2] \o Uses(top) \o cb) :
        m \in MarkerPlacements,
        decls \in SeqsUpTo(DeclShapes, MaxDecls),
        top \in {<<>>, <<"a">>},
        cb \in {<<>>, <<Handler(Uses(<<"a">>))>>}}

DeclOptionSets ==
    {[NoOptions EXCEPT !.checkServerOnlyMarker = m, !.reportUnusedImports = u] :
        m \in Toggle, u \in Toggle}

AnalyseDecls ==
    /\ phase = "idle"
    /\ \E opts \in DeclOptionSets, prog \in DeclFiles : Create(opts, ClientFile, prog)

NextDecls ==
    \/ AnalyseDecls
    \/ ImportDeclarationVisit
    \/ CallExpressionVisit
    \/ ExportAllDeclarationVisit
    \/ ExportNamedDeclarationVisit
    \/ ProgramExit

SpecDecls == Init /\ [][NextDecls]_vars

\* ------------------------------------------------------------------------
\* Declarations and requires before, inside and after callbacks
\* ------------------------------------------------------------------------

\* const name = other();  -- a declaration that shadows an outer name
Shadow(name) ==
    VariableDeclaration(<<VariableDeclarator(name, CallExpression(Identifier("other"), <<>>))>>)

\* other(require('m'));  -- a require that is an argument
RequireArgument(m) ==
    ExpressionStatement(CallExpression(Identifier("other"), <<RequireCall(m)>>))

\* what a callback holds: reads, requires, a shadowing declaration
ScopeBodies ==
    {<<Use("a")>>,
     <<ConstRequire("a", fs)>>,
     <<ConstRequire("a", fs), Use("a")>>,
     <<BareRequire(fs)>>,
     <<RequireArgument(fs_p)>>,
     <<Shadow("a"), Use("a")>>}

ScopeDecls ==
    {ImportDeclaration("value", <<ImportDefaultSpecifier("a")>>, fs),
     ConstRequire("a", fs),
     BareRequire(fs),
     RequireArgument(fs_p)}

\* a boundary callback that reads a, or none; the declarations; a read at top
\* level, or none; a callback of a boundary call or of another call, or none
ScopeFiles ==
    {Program(pre \o decls \o Uses(top) \o post) :
        pre \in {<<>>, <<Handler(<<Use("a")>>)>>},
        decls \in SeqsUpTo(ScopeDecls, MaxDecls),
        top \in {<<>>, <<"a">>},
        post \in {<<>>} \cup {<<Handler(b)>> : b \in ScopeBodies}
                        \cup {<<Plain(b)>> : b \in ScopeBodies}}

AnalyseScopes ==
    /\ phase = "idle"
    /\ \E opts \in OptionSets, prog \in ScopeFiles : Create(opts, ClientFile, prog)

NextScopes ==
    \/ AnalyseScopes
    \/ ImportDeclarationVisit
    \/ CallExpressionVisit
    \/ ProgramExit

SpecScopes == Init /\ [][NextScopes]_vars

\* ------------------------------------------------------------------------
\* Method-call chains of every length up to MaxChain
\* ------------------------------------------------------------------------

\* the arguments of one call of a chain: none, a callback of either kind, or
\* a callback after another argument
ArgumentLists ==
    {<<>>,
     <<ArrowFunctionExpression(<<>>)>>,
     <<FunctionExpression(<<>>)>>,
     <<Literal(fs), ArrowFunctionExpression(<<>>)>>}

RECURSIVE ChainOf(_, _, _)
\* name(args[1]).m(args[2]).m(args[3])...  up to its n-th call
ChainOf(name, args, n) ==
    IF n = 1
      THEN CallExpression(Identifier(name), args[1])
      ELSE CallExpression(MemberExpression(ChainOf(name, args, n - 1), "m"), args[n])

Chains ==
    {ChainOf(name, args, Len(args)) :
        name \in {"createServerFn", "server$", "custom", "other"},
        args \in SeqsUpTo(ArgumentLists, MaxChain) \ {<<>>}}

\* const fn = <chain>;
ChainFiles == {Program(<<VariableDeclaration(<<VariableDeclarator("fn", c)>>)>>) : c \in Chains}

ChainOptionSets ==
    {[NoOptions EXCEPT !.checkServerFunctions = f, !.serverFunctionNames = n] :
        f \in Toggle, n \in {<<>>, << <<"custom">> >>}}

AnalyseChains ==
    /\ phase = "idle"
    /\ \E opts \in ChainOptionSets, prog \in ChainFiles : Create(opts, ClientFile, prog)

NextChains ==
    \/ AnalyseChains
    \/ CallExpressionVisit
    \/ ProgramExit

SpecChains == Init /\ [][NextChains]_vars

\* ------------------------------------------------------------------------
\* Violating declarations after directives, with and without the marker
\* ------------------------------------------------------------------------

\* 'value';
Directive(value) == ExpressionStatement(Literal(value))

Prologues ==
    {<<>>, <<Directive(use_client)>>, <<Directive(use_strict)>>,
     <<Directive(use_strict), Directive(use_client)>>}

\* one declaration of each kind that is reported
ViolatingDecls ==
    {ImportDeclaration("value", <<>>, fs),
     ImportDeclaration("value", <<ImportDefaultSpecifier("a")>>, fs),
     ExportAllDeclaration("value", fs),
     ExportNamedDeclaration("value", <<ExportSpecifier("value", "x")>>, TRUE, fs),
     BareRequire(fs),
     ConstRequire("a", fs)}

\* the prologue, the marker or none, the declarations, and 'use client' as a
\* statement that is no directive any more, or none
SuggestFiles ==
    {Program(prologue \o marker \o decls \o late) :
        prologue \in Prologues,
        marker \in {<<>>, <<MarkerImport>>},
        decls \in SeqsUpTo(ViolatingDecls, MaxDecls) \ {<<>>},
        late \in {<<>>, <<Directive(use_client)>>}}

SuggestOptionSets ==
    {[NoOptions EXCEPT !.checkServerOnlyMarker = m] : m \in Toggle}

AnalyseSuggest ==
    /\ phase = "idle"
    /\ \E opts \in SuggestOptionSets, prog \in SuggestFiles : Create(opts, ClientFile, prog)

NextSuggest ==
    \/ AnalyseSuggest
    \/ ImportDeclarationVisit
    \/ CallExpressionVisit
    \/ ExportAllDeclarationVisit
    \/ ExportNamedDeclarationVisit
    \/ ProgramExit

SpecSuggest == Init /\ [][NextSuggest]_vars

\* ------------------------------------------------------------------------
\* One file after the other: the host calls create() for each file anew
\* ------------------------------------------------------------------------

\* the host takes the diagnostics of the finished file and turns to the next
\* one; what the finished analysis collected is left behind as it is
NextFile ==
    /\ phase = "done"
    /\ Cardinality(runs) < MaxRuns
    /\ runs' = runs \cup {[options |-> options, filename |-> filename, ast |-> ast,
                           reports |-> reports]}
    /\ phase' = "idle"
    /\ reports' = <<>>
    /\ UNCHANGED <<options, filename, ast, queue, probe, verdict, disk,
                   cachedFramework, cachedProjectRoot, call, earlier, text, edits,
                   editor>>
    /\ UNCHANGED collected

\* files that differ in what they leave behind: scopes, the marker flag,
\* bindings, requires, side-effect imports, re-exports
RunFiles ==
    {Program(<<ImportDeclaration("value", <<ImportDefaultSpecifier("a")>>, fs),
               Handler(<<Use("a")>>)>>),
     Program(<<ImportDeclaration("value", <<ImportDefaultSpecifier("a")>>, fs),
               Plain(<<Use("a")>>)>>),
     Program(<<MarkerImport,
               ImportDeclaration("value", <<ImportDefaultSpecifier("a")>>, fs)>>),
     Program(<<ImportDeclaration("value", <<>>, fs)>>),
     Program(<<BareRequire(fs), ConstRequire("a", fs)>>),
     Program(<<ExportAllDeclaration("value", fs),
               ExportNamedDeclaration("value", <<ExportSpecifier("value", "x")>>, TRUE, fs)>>)}

RunOptionSets == {[NoOptions EXCEPT !.checkServerFunctions = f] : f \in Toggle}

AnalyseRuns ==
    /\ phase = "idle"
    /\ \E opts \in RunOptionSets, prog \in RunFiles : Create(opts, ClientFile, prog)

NextRuns ==
    \/ AnalyseRuns
    \/ ImportDeclarationVisit
    \/ CallExpressionVisit
    \/ ExportAllDeclarationVisit
    \/ ExportNamedDeclarationVisit
    \/ ProgramExit
    \/ NextFile

SpecRuns == Init /\ [][NextRuns]_vars

\* ------------------------------------------------------------------------
\* File selection: analyses of files that violate, under every file name and
\* selection option
\* ------------------------------------------------------------------------

\* files that are reported whenever they are analysed
ViolatingFiles ==
    {Program(<<ImportDeclaration("value", <<>>, fs)>>),
     Program(<<ImportDeclaration("value", <<ImportDefaultSpecifier("a")>>, fs),
               ExportAllDeclaration("value", fs),
               ExportNamedDeclaration("value", <<ExportSpecifier("value", "x")>>, TRUE, fs),
               BareRequire(fs)>>),
     Program(<<ConstRequire("a", fs), Use("a"), Handler(Uses(<<"a">>))>>)}

FileNames ==
    {ClientFile,
     FileName(<<"app", "src", "lib">>, "logger", ".ts"),
     FileName(<<"app", "src", "lib">>, "logger", ".server.ts"),
     FileName(<<"app", "src", "server">>, "utils", ".ts"),
     FileName(<<"app", "src", "routes", "api">>, "users", ".ts"),
     FileName(<<"app", "src", "routes", "__test__">>, "index", ".tsx"),
     FileName(<<"app", "src", "backend">>, "logger", ".ts"),
     FileName(<<"app", "src", "views">>, "home", ".tsx"),
     FileName(<<"project", "src", "app">>, "page", ".tsx"),
     FileName(<<"app", "src", "components">>, "Button", ".server.tsx")}

SelectionOptionSets ==
    {[NoOptions EXCEPT !.ignoreFiles = i, !.serverFilePatterns = sp,
                       !.clientFilePatterns = cp, !.mode = m] :
        i \in {<<>>, <<<<>>>>, <<<<DirGlob(<<"__test__">>)>>>>, <<<<DirGlob(<<"routes">>)>>>>},
        sp \in {<<>>, <<<<DirGlob(<<"backend">>)>>>>},
        cp \in {<<>>, <<<<>>>>, <<<<DirGlob(<<"views">>)>>>>},
        m \in {<<>>, <<"client-only">>, <<"all-non-server">>}}

AnalyseSelected ==
    /\ phase = "idle"
    /\ \E opts \in SelectionOptionSets, file \in FileNames, prog \in ViolatingFiles :
          Create(opts, file, prog)

NextFiles ==
    \/ AnalyseSelected
    \/ ImportDeclarationVisit
    \/ CallExpressionVisit
    \/ ExportAllDeclarationVisit
    \/ ExportNamedDeclarationVisit
    \/ ProgramExit

SpecFiles == Init /\ [][NextFiles]_vars

\* ------------------------------------------------------------------------
\* The module classifier on its own: every specifier up to MaxLen over a
\* small alphabet, under every configured list
\* ------------------------------------------------------------------------

Alphabet == {"f", "s", "p", "/"}

Specifiers == SeqsUpTo(Alphabet, MaxLen)

ModuleOptionSets ==
    {[NoOptions EXCEPT !.serverModules = sm, !.serverExternalPackages = ep] :
        sm \in {<<>>, << <<<<"s">>>> >>, << <<<<"p", "/">>, <<"s", "p">>>> >>},
        ep \in {<<>>, << <<<<"f">>>> >>, << <<<<"s", "s">>, <<"p">>>> >>}}

InitModules ==
    /\ phase = "idle"
    /\ options \in ModuleOptionSets
    /\ filename = NoFile
    /\ ast = Program(<<>>)
    /\ queue = <<>>
    /\ hasServerOnlyImport = FALSE
    /\ serverOnlyImports = <<>>
    /\ serverFunctionScopes = {}
    /\ serverOnlyRequires = <<>>
    /\ bareRequireViolations = <<>>
    /\ sideEffectImportViolations = <<>>
    /\ reexportViolations = <<>>
    /\ reports = <<>>
    /\ probe \in Specifiers
    /\ verdict = <<>>
    /\ runs = {}
    /\ disk = EmptyDisk
    /\ DetectionIdle
    /\ NoText
    /\ NoEditor

\* the rule puts the specifier to isServerOnlyModule
Classify ==
    /\ verdict = <<>>
    /\ verdict' = <<isServerOnlyModule(serverModulesOf(options), probe)>>
    /\ UNCHANGED <<phase, options, filename, ast, queue, reports, probe>>
    /\ UNCHANGED collected
    /\ UNCHANGED aside

NextModules == Classify

SpecModules == InitModules /\ [][NextModules]_vars

\* ------------------------------------------------------------------------
\* Framework detection on a file system that changes between the calls
\* ------------------------------------------------------------------------

\* a version string as package.json gives it
anyVersion == "^1"

Layouts ==
    {Layout({}, Missing),
     Layout({ConfigFile("next.config", ".js")}, JsonObject(<<>>, <<>>)),
     Layout({}, JsonObject(<<[n \in {"astro"} |-> anyVersion]>>, <<>>)),
     Layout({ConfigFile("next.config", ".js")},
            JsonObject(<<[n \in {"astro"} |-> anyVersion]>>, <<>>)),
     Layout({ConfigFile("svelte.config", ".js"), ConfigFile("astro.config", ".mjs")},
            JsonObject(<<>>, <<>>)),
     Layout({}, Malformed),
     Layout({}, Unreadable),
     Layout({}, JsonNull),
     Layout({}, JsonObject(<<[n \in {"next"} |-> ""]>>, <<>>)),
     Layout({}, JsonObject(<<[n \in {"astro", "react"} |-> anyVersion]>>,
                           <<[n \in {"@sveltejs/kit"} |-> anyVersion]>>)),
     Layout({ConfigFile("next.config", ".json")},
            JsonObject(<<[n \in {"react"} |-> anyVersion]>>, <<>>)),
     Layout({ConfigFile("astro.config", ".ts")}, Malformed)}

\* what the working directory holds: nothing, or a package.json that lists astro
CwdLayouts ==
    {Layout({}, Missing),
     Layout({}, JsonObject(<<[n \in {"astro"} |-> anyVersion]>>, <<>>))}

\* the file systems of the model
Disks == {fsys \in [ProjectDirs -> Layouts] : fsys[cwd] \in CwdLayouts}

\* no argument, a file below /p, the directory /p, a file in /q
FilePaths == {<<>>, << <<"p", "src", "page.tsx">> >>, << <<"p">> >>, << <<"q", "x.ts">> >>}

InitDetect ==
    /\ Idle
    /\ probe = <<>>
    /\ verdict = <<>>
    /\ runs = {}
    /\ disk \in {fsys \in Disks :
                    fsys[<<"p">>] \in {Layout({}, Missing),
                                       Layout({ConfigFile("next.config", ".js")},
                                              JsonObject(<<>>, <<>>))}}
    /\ DetectionIdle
    /\ NoText
    /\ NoEditor

\* somebody calls detectFramework
Detect == \E filePath \in FilePaths : detectFramework(filePath)

\* somebody writes or removes files of a project directory
WriteDisk ==
    /\ \E dir \in ProjectDirs, layout \in Layouts :
          /\ disk[dir] # layout
          /\ [disk EXCEPT ![dir] = layout] \in Disks
          /\ disk' = [disk EXCEPT ![dir] = layout]
    /\ UNCHANGED <<cachedFramework, cachedProjectRoot, call, earlier, runs, probe,
                   verdict, phase, options, filename, ast, queue, reports, text, edits,
                   editor>>
    /\ UNCHANGED collected

NextDetect ==
    \/ Detect
    \/ clearFrameworkCache
    \/ WriteDisk

SpecDetect == InitDetect /\ [][NextDetect]_vars

\* ------------------------------------------------------------------------
\* The fix of the marker suggestion, for every source text of up to MaxLines
\* lines
\* ------------------------------------------------------------------------

\* the lines source texts are made of: directives, an import of fs at the
\* start of its line, indented, after a comment or after a directive, and the
\* marker import in several spellings
Lines ==
    {<<"'use strict'", ";", "\n">>,
     <<"'use client'", ";", "\n">>,
     <<"import", " ", "'fs'", ";", "\n">>,
     <<" ", "import", " ", "'fs'", ";", "\n">>,
     <<"/*c*/", " ", "import", " ", "'fs'", ";", "\n">>,
     <<"'use strict'", ";", " ", "import", " ", "'fs'", ";", "\n">>,
     <<"import", " ", "'server-only'", ";", "\n">>,
     <<"import", " ", "\"server-only\"", ";", "\n">>,
     <<"import", "\n", "'server-only'", ";", "\n">>,
     <<"import", "'server-only'", ";", "\n">>,
     <<" ", "import", " ", "'server-only'", ";", "\n">>}

RECURSIVE Joined(_)
Joined(lines) == IF lines = <<>> THEN <<>> ELSE Head(lines) \o Joined(Tail(lines))

Texts == {Joined(lines) : lines \in SeqsUpTo(Lines, MaxLines)}

InitFix ==
    /\ Idle
    /\ probe = <<>>
    /\ verdict = <<>>
    /\ runs = {}
    /\ disk = EmptyDisk
    /\ DetectionIdle
    /\ text \in Texts
    /\ edits = <<>>
    /\ NoEditor

\* the host asks createServerOnlyMarkerSuggestion for the suggestion of a
\* diagnostic in the text as it is now, and applies the edit its fix returns
ApplyFix ==
    /\ Len(edits) < MaxFixes
    /\ createServerOnlyMarkerSuggestion(Parse(text)) # <<>>
    /\ edits' = Append(edits, [before |-> text, edit |-> fix(text)])
    /\ text' = Applied(text, fix(text))
    /\ UNCHANGED <<phase, options, filename, ast, queue, reports, probe, verdict,
                   runs, disk, cachedFramework, cachedProjectRoot, call, earlier,
                   editor>>
    /\ UNCHANGED collected

NextFix == ApplyFix

SpecFix == InitFix /\ [][NextFix]_vars

\* ------------------------------------------------------------------------
\* The marker at top level and below it, next to declarations that violate
\* ------------------------------------------------------------------------

\* function init() { stmts }  written as  const init = function () { stmts };
FunctionOf(stmts) ==
    VariableDeclaration(<<VariableDeclarator("init", FunctionExpression(stmts))>>)

\* no marker; the marker import; the marker require as a statement, as an
\* initializer, as an argument; the marker require inside a function, inside
\* a callback of a boundary call and inside one of another call
MarkerForms ==
    {<<>>,
     <<MarkerImport>>,
     <<MarkerRequire>>,
     <<ConstRequire("m", server_only)>>,
     <<RequireArgument(server_only)>>,
     <<FunctionOf(<<MarkerRequire>>)>>,
     <<Handler(<<MarkerRequire>>)>>,
     <<Plain(<<ConstRequire("m", server_only)>>)>>}

MarkerFiles ==
    {Program(decls \o marker) :
        decls \in SeqsUpTo(ViolatingDecls, MaxDecls) \ {<<>>},
        marker \in MarkerForms}

AnalyseMarked ==
    /\ phase = "idle"
    /\ \E opts \in SuggestOptionSets, prog \in MarkerFiles : Create(opts, ClientFile, prog)

NextMarked ==
    \/ AnalyseMarked
    \/ ImportDeclarationVisit
    \/ CallExpressionVisit
    \/ ExportAllDeclarationVisit
    \/ ExportNamedDeclarationVisit
    \/ ProgramExit

SpecMarked == Init /\ [][NextMarked]_vars

\* ------------------------------------------------------------------------
\* Files that differ in one read outside the boundary scopes, analysed one
\* after the other
\* ------------------------------------------------------------------------

\* a declaration that binds a, then reads of a inside a boundary callback,
\* at top level and inside a callback of another call
ReadFiles ==
    {Program(<<decl>> \o rest) :
        decl \in {ImportDeclaration("value", <<ImportDefaultSpecifier("a")>>, fs),
                  ConstRequire("a", fs)},
        rest \in {<<>>,
                  <<Use("a")>>,
                  <<Handler(<<Use("a")>>)>>,
                  <<Handler(<<Use("a")>>), Use("a")>>,
                  <<Handler(<<Use("a")>>), Plain(<<Use("a")>>)>>,
                  <<Handler(<<Use("a")>>), Use("a"), Use("a")>>}}

ReadOptionSets == {[NoOptions EXCEPT !.reportUnusedImports = u] : u \in Toggle}

AnalyseReads ==
    /\ phase = "idle"
    /\ \E opts \in ReadOptionSets, prog \in ReadFiles : Create(opts, ClientFile, prog)

NextReads ==
    \/ AnalyseReads
    \/ ImportDeclarationVisit
    \/ CallExpressionVisit
    \/ ProgramExit
    \/ NextFile

SpecReads == Init /\ [][NextReads]_vars

\* ------------------------------------------------------------------------
\* Two declarations of one module, with several bindings and several reads
\* ------------------------------------------------------------------------

CountedFiles ==
    {Program(<<first>> \o second \o Uses(reads) \o cb) :
        first \in {ImportDeclaration("value", <<ImportDefaultSpecifier("a")>>, fs),
                   ImportDeclaration("value", <<ImportSpecifier("value", "a"),
                                                ImportSpecifier("value", "b")>>, fs),
                   ConstRequire("a", fs)},
        second \in {<<>>,
                    <<ImportDeclaration("value", <<ImportDefaultSpecifier("c")>>, fs)>>,
                    <<ConstRequire("c", fs)>>},
        reads \in {<<>>, <<"a">>, <<"a", "a">>, <<"a", "b">>, <<"c">>, <<"a", "c">>,
                   <<"a", "b", "a", "c">>},
        cb \in {<<>>, <<Handler(Uses(<<"a", "c">>))>>}}

AnalyseCounted ==
    /\ phase = "idle"
    /\ \E opts \in ReadOptionSets, prog \in CountedFiles : Create(opts, ClientFile, prog)

NextCounted ==
    \/ AnalyseCounted
    \/ ImportDeclarationVisit
    \/ CallExpressionVisit
    \/ ProgramExit

SpecCounted == Init /\ [][NextCounted]_vars

\* ------------------------------------------------------------------------
\* Requires in declarations with several declarators
\* ------------------------------------------------------------------------

\* const a = require('fs'), x = other();  and the like
DeclaratorLists ==
    {<<VariableDeclarator("a", RequireCall(fs))>>,
     <<VariableDeclarator("a", RequireCall(fs)),
       VariableDeclarator("x", CallExpression(Identifier("other"), <<>>))>>,
     <<VariableDeclarator("x", CallExpression(Identifier("other"), <<>>)),
       VariableDeclarator("a", RequireCall(fs))>>,
     <<VariableDeclarator("a", RequireCall(fs)),
       VariableDeclarator("x", RequireCall(react))>>,
     <<VariableDeclarator("a", RequireCall(fs)),
       VariableDeclarator("x", RequireCall(fs_p))>>}

DeclaratorFiles ==
    {Program(<<VariableDeclaration(decls)>> \o Uses(reads) \o cb) :
        decls \in DeclaratorLists,
        reads \in {<<>>, <<"a">>, <<"x">>, <<"a", "x">>},
        cb \in {<<>>, <<Handler(Uses(<<"a">>))>>, <<Handler(Uses(<<"x">>))>>,
                <<Handler(Uses(<<"a", "x">>))>>}}

AnalyseDeclarators ==
    /\ phase = "idle"
    /\ \E opts \in ReadOptionSets, prog \in DeclaratorFiles : Create(opts, ClientFile, prog)

NextDeclarators ==
    \/ AnalyseDeclarators
    \/ CallExpressionVisit
    \/ ProgramExit

SpecDeclarators == Init /\ [][NextDeclarators]_vars

\* ------------------------------------------------------------------------
\* Server function calls inside the arguments and the callee of other calls
\* ------------------------------------------------------------------------

\* createServerFn()
RootCall == CallExpression(Identifier("createServerFn"), <<>>)

\* the calls a callback cb is handed to
Receivers(cb) ==
    {\* createServerFn(cb)   createServerFn().handler(cb)
     CallExpression(Identifier("createServerFn"), <<cb>>),
     CallExpression(MemberExpression(RootCall, "handler"), <<cb>>),
     \* other(createServerFn(), cb)   other(createServerFn().handler(), cb)
     CallExpression(Identifier("other"), <<RootCall, cb>>),
     CallExpression(Identifier("other"),
                    <<CallExpression(MemberExpression(RootCall, "handler"), <<>>), cb>>),
     \* other(createServerFn().x, cb)   other(createServerFn().x.y, cb)
     CallExpression(Identifier("other"), <<MemberExpression(RootCall, "x"), cb>>),
     CallExpression(Identifier("other"),
                    <<MemberExpression(MemberExpression(RootCall, "x"), "y"), cb>>),
     \* obj[createServerFn()](cb)
     CallExpression(ComputedMemberExpression(Identifier("obj"), RootCall), <<cb>>)}

\* import a from 'fs'; <receiver>(<callback that reads a>);  and a read at top
\* level or none
ReceiverFiles ==
    {Program(<<ImportDeclaration("value", <<ImportDefaultSpecifier("a")>>, fs),
               ExpressionStatement(receiver)>> \o Uses(top)) :
        receiver \in UNION {Receivers(cb) :
                              cb \in {ArrowFunctionExpression(<<Use("a")>>),
                                      FunctionExpression(<<Use("a")>>)}},
        top \in {<<>>, <<"a">>}}

AnalyseReceivers ==
    /\ phase = "idle"
    /\ \E opts \in ChainOptionSets, prog \in ReceiverFiles : Create(opts, ClientFile, prog)

NextReceivers ==
    \/ AnalyseReceivers
    \/ ImportDeclarationVisit
    \/ CallExpressionVisit
    \/ ProgramExit

SpecReceivers == Init /\ [][NextReceivers]_vars

\* ------------------------------------------------------------------------
\* The editor extension (extension.ts): the status bar, its commands, and the
\* two caches behind them
\* ------------------------------------------------------------------------

\* FRAMEWORK_INFO[framework].name
FRAMEWORK_INFO(framework) ==
    CASE framework = "next" -> "Next.js"
      [] framework = "astro" -> "Astro"
      [] framework = "sveltekit" -> "SvelteKit"
      [] framework = "unknown" -> "Unknown"

\* Map.set and Map.delete
MapSet(map, key, value) ==
    [k \in DOMAIN map \cup {key} |-> IF k = key THEN value ELSE map[k]]
MapDelete(map, keys) == [k \in DOMAIN map \ keys |-> map[k]]

\* The extension's own copy of detectFramework(filePath), on the module state
\* s; what it returns is cachedFramework of the state it leaves. The copy
\* looks at the config files and at package.json in the order of
\* framework-detection.ts and maps every failure to 'unknown', as detect does.
detectFrameworkOf(s, fsys, filePath) ==
    LET projectRoot == projectRootOf(fsys, <<filePath>>)
    IN IF s.cachedProjectRoot = <<projectRoot>> /\ s.cachedFramework # <<>>
         THEN s
         ELSE [s EXCEPT !.cachedFramework = <<detect(fsys, projectRoot)>>,
                        !.cachedProjectRoot = <<projectRoot>>]

\* the extension's own clearFrameworkCache()
clearFrameworkCacheOf(s) ==
    [s EXCEPT !.cachedFramework = <<>>, !.cachedProjectRoot = <<>>]

\* a plausible slip: the command forgets the cache per workspace folder
frameworkCacheKept(s) == s

\* frameworkCache.clear()
frameworkCacheClear(s) == [s EXCEPT !.frameworkCache = <<>>]

\* detectFrameworkForWorkspace(workspaceFolder); what it returns is
\* frameworkCache[folderPath] of the state it leaves. Nothing detectFramework
\* calls can throw past its own try blocks, so the catch is never entered.
detectFrameworkForWorkspace(s, fsys, folderPath) ==
    IF folderPath \in DOMAIN s.frameworkCache THEN s
    ELSE LET t == detectFrameworkOf(s, fsys, folderPath)
         IN [t EXCEPT !.frameworkCache = MapSet(@, folderPath, t.cachedFramework[1])]

\* updateStatusBarForWorkspace(workspaceFolder): the item is created when it
\* is missing, and its text and visibility are set
updateStatusBarForWorkspace(s, fsys, folders, show, folderPath) ==
    LET t == detectFrameworkForWorkspace(s, fsys, folderPath)
        folderName == IF Len(folders) > 1 THEN <<folderPath>> ELSE <<>>
    IN [t EXCEPT !.statusBarItems =
           MapSet(@, folderPath,
                  [name |-> FRAMEWORK_INFO(t.frameworkCache[folderPath]),
                   folderName |-> folderName,
                   visible |-> show])]

RECURSIVE updateFrom(_, _, _, _, _)
\* the loop of updateAllStatusBars, from the i-th folder on
updateFrom(s, fsys, folders, show, i) ==
    IF i > Len(folders) THEN s
    ELSE updateFrom(updateStatusBarForWorkspace(s, fsys, folders, show, folders[i]),
                    fsys, folders, show, i + 1)

updateAllStatusBars(s, fsys, folders, show) == updateFrom(s, fsys, folders, show, 1)

\* the folder showStatus and openDocs speak of: the first one, or the one that
\* holds the file of the active editor; activeIn is <<>> or <<that folder>>
activeFolderOf(folders, activeIn) == OrElse(activeIn, folders[1])

\* showStatus(), up to the information box; with no folder it only warns
showStatus(s, fsys, folders, activeIn) ==
    IF Len(folders) = 0 THEN s
    ELSE detectFrameworkForWorkspace(s, fsys, activeFolderOf(folders, activeIn))

\* openDocs() detects the same way before it opens the page
openDocs(s, fsys, folders, activeIn) ==
    IF Len(folders) = 0 THEN s
    ELSE detectFrameworkForWorkspace(s, fsys, activeFolderOf(folders, activeIn))

\* the handler registered for noServerImports.detectFramework
detectFrameworkCommand(s, fsys, folders, show, activeIn) ==
    showStatus(updateAllStatusBars(frameworkCacheClear(clearFrameworkCacheOf(s)),
                                   fsys, folders, show),
               fsys, folders, activeIn)

\* the listener of onDidChangeWorkspaceFolders, the folders being already
\* the new ones
onDidChangeWorkspaceFolders(s, fsys, folders, show, removed) ==
    updateAllStatusBars(
        clearFrameworkCacheOf([s EXCEPT !.statusBarItems = MapDelete(@, removed),
                                        !.frameworkCache = MapDelete(@, removed)]),
        fsys, folders, show)

\* the listener of onDidChangeConfiguration, for a change that affects the
\* section noServerImports
onDidChangeConfiguration(s, fsys, folders, show) ==
    updateAllStatusBars(frameworkCacheClear(clearFrameworkCacheOf(s)),
                        fsys, folders, show)

\* ------------------------------------------------------------------------
\* The extension in an editor whose folders, settings and files change
\* ------------------------------------------------------------------------

\* the directories a workspace folder can be
FolderDirs == {<<"p">>, <<"p", "src">>, <<"q">>}

\* the workspace: up to MaxFolders folders, no folder twice
FolderLists ==
    {folders \in SeqsUpTo(FolderDirs, MaxFolders) :
        \A i, j \in 1..Len(folders) : i # j => folders[i] # folders[j]}

\* what /p can hold: nothing, package.json alone, a config file of next or of
\* svelte, a dependency on astro
EditorLayouts ==
    {Layout({}, Missing),
     Layout({}, JsonObject(<<>>, <<>>)),
     Layout({ConfigFile("next.config", ".js")}, JsonObject(<<>>, <<>>)),
     Layout({ConfigFile("svelte.config", ".js")}, JsonObject(<<>>, <<>>)),
     Layout({}, JsonObject(<<[n \in {"astro"} |-> anyVersion]>>, <<>>))}

EditorDisks ==
    {fsys \in [ProjectDirs -> EditorLayouts \cup CwdLayouts] :
        fsys[<<"p">>] \in EditorLayouts /\ fsys[cwd] \in CwdLayouts}

\* where the active editor can be: nowhere in the workspace, or in a folder
ActiveIn(folders) == {<<>>} \cup {<<folders[i]>> : i \in 1..Len(folders)}

\* the record of a handler: its name, and whether a status bar item that was
\* there before shows another framework after
Handled(name, before, after) ==
    [name |-> name,
     changed |-> \E f \in DOMAIN before.statusBarItems \cap DOMAIN after.statusBarItems :
                    before.statusBarItems[f].name # after.statusBarItems[f].name]

analysisIdle ==
    /\ Idle
    /\ probe = <<>>
    /\ verdict = <<>>
    /\ runs = {}
    /\ DetectionIdle
    /\ NoText

besidesEditor ==
    <<phase, options, filename, ast, queue, reports, probe, verdict, runs,
      cachedFramework, cachedProjectRoot, call, earlier, text, edits>>

\* activate(context) has run: the handlers are registered and the status bars
\* were updated for the first time
InitEditor ==
    /\ analysisIdle
    /\ disk \in EditorDisks
    /\ workspaceFolders \in FolderLists
    /\ showStatusBarItem \in BOOLEAN
    /\ extension = updateAllStatusBars(Loaded, disk, workspaceFolders, showStatusBarItem)
    /\ command = <<[name |-> "activate", changed |-> FALSE]>>

\* the user runs Detect Framework
DetectFrameworkCommand ==
    /\ \E activeIn \in ActiveIn(workspaceFolders) :
          LET after == detectFrameworkCommand(extension, disk, workspaceFolders,
                                              showStatusBarItem, activeIn)
          IN /\ extension' = after
             /\ command' = <<Handled("detectFramework", extension, after)>>
    /\ UNCHANGED <<disk, workspaceFolders, showStatusBarItem>>
    /\ UNCHANGED besidesEditor
    /\ UNCHANGED collected

\* the user runs Show Status
ShowStatusCommand ==
    /\ \E activeIn \in ActiveIn(workspaceFolders) :
          LET after == showStatus(extension, disk, workspaceFolders, activeIn)
          IN /\ extension' = after
             /\ command' = <<Handled("showStatus", extension, after)>>
    /\ UNCHANGED <<disk, workspaceFolders, showStatusBarItem>>
    /\ UNCHANGED besidesEditor
    /\ UNCHANGED collected

\* the user runs Open Documentation
OpenDocsCommand ==
    /\ \E activeIn \in ActiveIn(workspaceFolders) :
          LET after == openDocs(extension, disk, workspaceFolders, activeIn)
          IN /\ extension' = after
             /\ command' = <<Handled("openDocs", extension, after)>>
    /\ UNCHANGED <<disk, workspaceFolders, showStatusBarItem>>
    /\ UNCHANGED besidesEditor
    /\ UNCHANGED collected

\* folders are added to the workspace or removed from it
ChangeWorkspaceFolders ==
    /\ \E folders \in FolderLists :
          LET removed == Range(workspaceFolders) \ Range(folders)
              after == onDidChangeWorkspaceFolders(extension, disk, folders,
                                                   showStatusBarItem, removed)
          IN /\ Range(folders) # Range(workspaceFolders)
             /\ workspaceFolders' = folders
             /\ extension' = after
             /\ command' = <<Handled("onDidChangeWorkspaceFolders", extension, after)>>
    /\ UNCHANGED <<disk, showStatusBarItem>>
    /\ UNCHANGED besidesEditor
    /\ UNCHANGED collected

\* a setting of the section noServerImports is written
ChangeConfiguration ==
    /\ \E show \in BOOLEAN :
          LET after == onDidChangeConfiguration(extension, disk, workspaceFolders, show)
          IN /\ showStatusBarItem' = show
             /\ extension' = after
             /\ command' = <<Handled("onDidChangeConfiguration", extension, after)>>
    /\ UNCHANGED <<disk, workspaceFolders>>
    /\ UNCHANGED besidesEditor
    /\ UNCHANGED collected

\* the files of a project change under the editor: a config file is added, a
\* branch is switched; no handler of the extension hears of it
ChangeFiles ==
    /\ \E dir \in ProjectDirs, layout \in EditorLayouts \cup CwdLayouts :
          /\ disk[dir] # layout
          /\ [disk EXCEPT ![dir] = layout] \in EditorDisks
          /\ disk' = [disk EXCEPT ![dir] = layout]
    /\ command' = <<>>
    /\ UNCHANGED <<extension, workspaceFolders, showStatusBarItem>>
    /\ UNCHANGED besidesEditor
    /\ UNCHANGED collected

NextEditor ==
    \/ DetectFrameworkCommand
    \/ ShowStatusCommand
    \/ OpenDocsCommand
    \/ ChangeWorkspaceFolders
    \/ ChangeConfiguration
    \/ ChangeFiles

SpecEditor == InitEditor /\ [][NextEditor]_vars

\* ------------------------------------------------------------------------
\* Vocabulary of the properties
\* ------------------------------------------------------------------------

IsPrefix(s, t) == Len(s) <= Len(t) /\ SubSeq(t, 1, Len(s)) = s

\* the file holds import 'server-only' or require('server-only') somewhere
MarkerPresent(prog) ==
    \E p \in Range(Walk(prog)) :
        LET n == NodeAt(prog, p)
        IN \/ n.type = "ImportDeclaration" /\ n.source.value = server_only
           \/ /\ n.type = "CallExpression"
              /\ n.callee.type = "Identifier"
              /\ n.callee.name = "require"
              /\ Len(n.arguments) > 0
              /\ n.arguments[1].type = "Literal"
              /\ n.arguments[1].value = server_only

Finished == phase = "done"

ServerOnly(source) == isServerOnlyModule(serverModulesOf(options), source)

\* the top-level statements of the analysed file
Statements == 1..Len(ast.body)

\* statement i imports a server-only module
ServerImport(i) ==
    /\ ast.body[i].type = "ImportDeclaration"
    /\ ServerOnly(ast.body[i].source.value)

\* the local names the value specifiers of import i bind, and those its type
\* specifiers name
ValueBindings(i) ==
    {ast.body[i].specifiers[j].local :
        j \in {k \in 1..Len(ast.body[i].specifiers) :
                 /\ ast.body[i].importKind = "value"
                 /\ ast.body[i].specifiers[k].importKind = "value"}}

TypeSpecifiers(i) ==
    {j \in 1..Len(ast.body[i].specifiers) :
        \/ ast.body[i].importKind = "type"
        \/ ast.body[i].specifiers[j].importKind = "type"}

\* the identifiers that read the module-level variable of this name
ReadsOf(name) ==
    {r.identifier : r \in {q \in Range(References(ast, <<>>, name)) : q.isRead}}

\* a node lies inside some registered boundary scope
Confined(node) == \E scope \in serverFunctionScopes : IsPrefix(scope, node)

\* the diagnostics attributed to a node of top-level statement i
ReportsAt(i) == {k \in 1..Len(reports) : reports[k].node[1] = i}

\* ------------------------------------------------------------------------
\* Properties
\* ------------------------------------------------------------------------

\* C1: in an analysed file without the marker, an import of a server-only
\* module with value bindings, each of which is read at least once and only
\* inside registered boundary scopes, gets no diagnostic.
C1_ConfinedImportNotReported ==
    (Finished /\ ~MarkerPresent(ast)) =>
        \A i \in Statements :
            ( /\ ServerImport(i)
              /\ ValueBindings(i) # {}
              /\ \A name \in ValueBindings(i) :
                    /\ ReadsOf(name) # {}
                    /\ \A r \in ReadsOf(name) : Confined(r) )
            => ReportsAt(i) = {}

\* C1 happens: a two-binding import of a server-only module, both bindings read
\* inside a boundary scope only, in a finished analysis without diagnostics
C1_Witness ==
    /\ Finished
    /\ ~MarkerPresent(ast)
    /\ \E i \in Statements :
          /\ ServerImport(i)
          /\ Cardinality(ValueBindings(i)) = 2
          /\ \A name \in ValueBindings(i) :
                /\ ReadsOf(name) # {}
                /\ \A r \in ReadsOf(name) : Confined(r)
          /\ ReportsAt(i) = {}

\* C2: in an analysed file without the marker, an import of a server-only
\* module one of whose value bindings has a read outside every boundary scope
\* gets a serverOnlyImport diagnostic on its source, whatever its other reads.
C2_UnconfinedReadReported ==
    (Finished /\ ~MarkerPresent(ast)) =>
        \A i \in Statements :
            ( /\ ServerImport(i)
              /\ \E name \in ValueBindings(i) : \E r \in ReadsOf(name) : ~Confined(r) )
            => \E k \in ReportsAt(i) :
                  /\ reports[k].messageId = "serverOnlyImport"
                  /\ reports[k].node = SourceOf(ast, <<i>>)

\* C2 happens: a binding read both inside a registered boundary scope and
\* outside every one, and the import is reported
C2_Witness ==
    /\ Finished
    /\ ~MarkerPresent(ast)
    /\ \E i \in Statements :
          /\ ServerImport(i)
          /\ \E name \in ValueBindings(i) :
                /\ \E r \in ReadsOf(name) : ~Confined(r)
                /\ \E r \in ReadsOf(name) : Confined(r)
          /\ ReportsAt(i) # {}

\* C3: with checkServerOnlyMarker on, a file that holds the marker import or
\* require gets no diagnostic, whatever else it holds and wherever the marker is.
C3_MarkerSuppressesAll ==
    (checkServerOnlyMarkerOf(options) /\ MarkerPresent(ast)) => reports = <<>>

\* C3 happens: the marker comes last, after a side-effect import of a
\* server-only module that was collected, and the finished analysis is silent
C3_Witness ==
    /\ Finished
    /\ checkServerOnlyMarkerOf(options)
    /\ MarkerPresent(ast)
    /\ sideEffectImportViolations # <<>>
    /\ \E i \in Statements :
          /\ ast.body[i].type = "ImportDeclaration"
          /\ ast.body[i].source.value = server_only
          /\ sideEffectImportViolations[1].node[1] < i
    /\ reports = <<>>

\* the entries of the configured list: defaults, serverModules and
\* serverExternalPackages
Configured ==
    Range(DEFAULT_SERVER_MODULES) \cup Range(OrElse(options.serverModules, <<>>))
                                  \cup Range(OrElse(options.serverExternalPackages, <<>>))

\* C4: isServerOnlyModule(s) is true exactly when s is an entry of the
\* configured list or an entry followed by '/' and anything; a specifier that
\* only shares a prefix with an entry is not server-only.
C4_ModuleClassifier ==
    verdict # <<>> =>
        (verdict[1] <=>
            \E e \in Configured :
                \/ probe = e
                \/ \E rest \in Specifiers : probe = e \o <<"/">> \o rest)

\* C4 happens: a specifier that starts with an entry, without the '/', is
\* answered false
C4_Witness ==
    /\ verdict = <<FALSE>>
    /\ \E e \in Configured : e # <<>> /\ IsPrefix(e, probe) /\ Len(probe) > Len(e)

IgnoredPath == isMatch(OrElse(options.ignoreFiles, <<>>), filename)
ServerPath ==
    isMatch(DEFAULT_SERVER_FILE_PATTERNS \o OrElse(options.serverFilePatterns, <<>>), filename)
ClientPath ==
    isMatch(OrElse(options.clientFilePatterns, DEFAULT_CLIENT_FILE_PATTERNS), filename)

\* C5: a file whose path matches an ignoreFiles glob or a server file pattern
\* never gets a diagnostic, whatever its content, the mode and the client
\* patterns.
C5_IgnoredAndServerFilesSilent ==
    (phase # "idle" /\ (IgnoredPath \/ ServerPath)) => reports = <<>>

\* C5 happens: a file with four violating declarations whose path matches a
\* server pattern and a client pattern is done without diagnostics
C5_Witness ==
    /\ Finished
    /\ ~IgnoredPath
    /\ ServerPath
    /\ ClientPath
    /\ Len(ast.body) = 4
    /\ reports = <<>>

\* what the selection order makes of a path
Eligible ==
    /\ ~IgnoredPath
    /\ ~ServerPath
    /\ OrElse(options.mode, "client-only") = "client-only" => ClientPath

\* C6: ignoreFiles first, then the server patterns, then the mode: in
\* 'client-only' a remaining file is analysed only if it matches a client
\* pattern, in 'all-non-server' every remaining file is analysed.  (Every
\* file of SpecFiles is reported when it is analysed.)
C6_SelectionOrder ==
    /\ phase = "traverse" => Eligible
    /\ Finished => (reports # <<>> <=> Eligible)

\* C6 happens: in mode 'all-non-server' a file outside the client patterns is
\* analysed and reported
C6_Witness ==
    /\ Finished
    /\ options.mode = <<"all-non-server">>
    /\ ~ClientPath
    /\ reports # <<>>

\* statement i is 'const x = require(m)' of a server-only module
ServerRequire(i) ==
    /\ ast.body[i].type = "VariableDeclaration"
    /\ Len(ast.body[i].declarations) = 1
    /\ getRequireSource(ast.body[i].declarations[1].init) # <<>>
    /\ ServerOnly(getRequireSource(ast.body[i].declarations[1].init)[1])

\* the names statement i binds to values
Bindings(i) ==
    IF ast.body[i].type = "ImportDeclaration"
      THEN ValueBindings(i)
      ELSE {ast.body[i].declarations[1].id.name}

Unused(i) == \E name \in Bindings(i) : ReadsOf(name) = {}
Unconfined(i) == \E name \in Bindings(i) : \E r \in ReadsOf(name) : ~Confined(r)

\* C7: a server-only import binding, or a top-level variable bound by require
\* of a server-only module, that has no read is reported if and only if
\* reportUnusedImports is true, which is the default (the declaration having
\* no binding with an unconfined read, which is reported in any case).
C7_UnusedReportedIffOption ==
    (Finished /\ ~MarkerPresent(ast)) =>
        \A i \in Statements :
            ( /\ ServerImport(i) \/ ServerRequire(i)
              /\ Bindings(i) # {}
              /\ Unused(i)
              /\ ~Unconfined(i) )
            => (ReportsAt(i) # {} <=> OrElse(options.reportUnusedImports, TRUE))

\* C7 happens: with reportUnusedImports false, a require whose variable is
\* never read is not reported
C7_Witness ==
    /\ Finished
    /\ ~MarkerPresent(ast)
    /\ options.reportUnusedImports = <<FALSE>>
    /\ \E i \in Statements : ServerRequire(i) /\ Unused(i) /\ ReportsAt(i) = {}

\* C8: in an analysed file without the marker, a side-effect import of a
\* server-only module gets exactly one diagnostic, a serverOnlyImport,
\* whatever the boundary scopes and reportUnusedImports.
C8_SideEffectImportReported ==
    (Finished /\ ~MarkerPresent(ast)) =>
        \A i \in Statements :
            (ServerImport(i) /\ Len(ast.body[i].specifiers) = 0)
            => /\ Cardinality(ReportsAt(i)) = 1
               /\ \A k \in ReportsAt(i) : reports[k].messageId = "serverOnlyImport"

\* C8 happens: a side-effect import is reported in a file with a registered
\* boundary scope and reportUnusedImports off
C8_Witness ==
    /\ Finished
    /\ ~MarkerPresent(ast)
    /\ serverFunctionScopes # {}
    /\ options.reportUnusedImports = <<FALSE>>
    /\ \E i \in Statements :
          /\ ServerImport(i)
          /\ Len(ast.body[i].specifiers) = 0
          /\ Cardinality(ReportsAt(i)) = 1

\* statement i re-exports from a server-only module
ServerReexport(i) ==
    /\ ast.body[i].type \in {"ExportAllDeclaration", "ExportNamedDeclaration"}
    /\ ast.body[i].type = "ExportNamedDeclaration" => ast.body[i].hasSource
    /\ ServerOnly(ast.body[i].source.value)

\* 'export * from m', or 'export { .. } from m' with a specifier that is not
\* a type
ValueReexport(i) ==
    /\ ast.body[i].exportKind = "value"
    /\ ast.body[i].type = "ExportNamedDeclaration" =>
          \E j \in 1..Len(ast.body[i].specifiers) :
              ast.body[i].specifiers[j].exportKind = "value"

\* 'export type *', 'export type { .. }', or every specifier an inline type
TypeOnlyReexport(i) ==
    \/ ast.body[i].exportKind = "type"
    \/ /\ ast.body[i].type = "ExportNamedDeclaration"
       /\ Len(ast.body[i].specifiers) > 0
       /\ \A j \in 1..Len(ast.body[i].specifiers) :
              ast.body[i].specifiers[j].exportKind = "type"

\* C9: in an analysed file without the marker, a re-export from a server-only
\* module with a value specifier, or 'export *', gets exactly one
\* serverOnlyImport diagnostic whatever the boundary scopes; a re-export that
\* is type-only gets none.
C9_Reexports ==
    (Finished /\ ~MarkerPresent(ast)) =>
        \A i \in Statements :
            ServerReexport(i) =>
                /\ ValueReexport(i) =>
                      /\ Cardinality(ReportsAt(i)) = 1
                      /\ \A k \in ReportsAt(i) : reports[k].messageId = "serverOnlyImport"
                /\ TypeOnlyReexport(i) => ReportsAt(i) = {}

\* C9 happens: 'export { type x, y } from m' is reported once in a file with a
\* registered boundary scope
C9_Witness ==
    /\ Finished
    /\ ~MarkerPresent(ast)
    /\ serverFunctionScopes # {}
    /\ \E i \in Statements :
          /\ ServerReexport(i)
          /\ ast.body[i].type = "ExportNamedDeclaration"
          /\ Len(ast.body[i].specifiers) = 2
          /\ ValueReexport(i)
          /\ Cardinality(ReportsAt(i)) = 1

\* C10: type-only import specifiers produce no binding: 'import type' and a
\* declaration of inline 'type' specifiers only get no diagnostic; of a mixed
\* declaration only the value specifiers' variables are collected, and its
\* verdict is a function of their reads alone.
C10_TypeSpecifiersNoBinding ==
    /\ \A k \in 1..Len(serverOnlyImports) :
          \A v \in Range(serverOnlyImports[k].variables) :
              v.name \in ValueBindings(serverOnlyImports[k].node[1])
    /\ Finished =>
          \A i \in Statements :
              ( /\ ServerImport(i)
                /\ Len(ast.body[i].specifiers) > 0
                /\ TypeSpecifiers(i) = 1..Len(ast.body[i].specifiers) )
              => ReportsAt(i) = {}
    /\ (Finished /\ ~MarkerPresent(ast)) =>
          \A i \in Statements :
              (ServerImport(i) /\ TypeSpecifiers(i) # {} /\ ValueBindings(i) # {})
              => (ReportsAt(i) # {} <=>
                    \/ Unused(i) /\ OrElse(options.reportUnusedImports, TRUE)
                    \/ Unconfined(i))

\* C10 happens: in 'import { type a, b } from m' the type name a is read at
\* top level, b only inside a boundary scope, and the import is not reported
C10_Witness ==
    /\ Finished
    /\ ~MarkerPresent(ast)
    /\ \E i \in Statements :
          /\ ServerImport(i)
          /\ ValueBindings(i) # {}
          /\ \E j \in TypeSpecifiers(i) :
                \E r \in ReadsOf(ast.body[i].specifiers[j].local) : ~Confined(r)
          /\ ~Unused(i)
          /\ ~Unconfined(i)
          /\ ReportsAt(i) = {}

\* the last call of detectFramework, when there is one
Called == call # <<>>

\* what the detection makes of the project directory as the last call saw it
Detected == detect([dir \in ProjectDirs |-> call[1].saw], call[1].projectRoot)

\* the detection's own file checks, next to the search for the project root
DetectionChecks == {"config files", "package.json"}

\* C16 as stated: once detectFramework has returned a result for a project
\* root, a later call for that root returns the same result without checking
\* the config files or package.json again, whatever happened to them, until
\* clearFrameworkCache is called.
C16_CachedPerRootUntilCleared ==
    (Called /\ call[1].before # <<>>) =>
        /\ call[1].framework = call[1].before[1]
        /\ call[1].consulted \cap DetectionChecks = {}

\* C16, amended: the cache holds one project root.  A call that resolves to
\* the root of the call before it (no clearFrameworkCache in between) returns
\* that call's result and checks neither config files nor package.json,
\* whatever happened to them; the first call after clearFrameworkCache detects
\* from the file system as it is.
C16_CachedForLastRootUntilCleared ==
    Called =>
        /\ (call[1].previous # <<>> /\ call[1].previous[1].projectRoot = call[1].projectRoot)
              => /\ call[1].framework = call[1].previous[1].framework
                 /\ call[1].consulted \cap DetectionChecks = {}
        /\ call[1].previous = <<>>
              => /\ call[1].framework = Detected
                 /\ "config files" \in call[1].consulted

\* C16 happens: a call for the root of the call before it returns that call's
\* result although the file system would now give another one
C16_Witness ==
    /\ Called
    /\ call[1].previous # <<>>
    /\ call[1].previous[1].projectRoot = call[1].projectRoot
    /\ call[1].framework = call[1].previous[1].framework
    /\ Detected # call[1].framework

\* the project's package.json lists the dependency, in either member
Lists(pkg, name) ==
    /\ pkg.state = "json"
    /\ ~pkg.null
    /\ \/ pkg.dependencies # <<>> /\ name \in DOMAIN pkg.dependencies[1]
       \/ pkg.devDependencies # <<>> /\ name \in DOMAIN pkg.devDependencies[1]

\* the project holds <base>.js, .mjs, .cjs, .ts or .mts
HoldsConfig(layout, base) ==
    \E ext \in {".js", ".mjs", ".cjs", ".ts", ".mts"} :
        [base |-> base, ext |-> ext] \in layout.configs

\* the result the stated order gives for what a project directory holds
StatedFramework(layout) ==
    IF HoldsConfig(layout, "next.config") THEN "next"
    ELSE IF HoldsConfig(layout, "svelte.config") THEN "sveltekit"
    ELSE IF HoldsConfig(layout, "astro.config") THEN "astro"
    ELSE IF Lists(layout.pkg, "next") THEN "next"
    ELSE IF Lists(layout.pkg, "@sveltejs/kit") THEN "sveltekit"
    ELSE IF Lists(layout.pkg, "astro") THEN "astro"
    ELSE "unknown"

\* C18: for a project root that is not cached, detectFramework returns the
\* framework of the first config file found in the order next.config,
\* svelte.config, astro.config, else of the first dependency package.json
\* lists in the order next, @sveltejs/kit, astro, else 'unknown'; a missing,
\* unreadable or malformed package.json counts as listing nothing, and the
\* call always returns one of the four results.
C18_DetectionOrder ==
    (Called /\ ~call[1].hit) =>
        /\ call[1].framework \in {"next", "sveltekit", "astro", "unknown"}
        /\ call[1].framework = StatedFramework(call[1].saw)

\* the require calls of the analysed file that name a server-only module
ServerRequireCalls ==
    {p \in Range(Walk(ast)) :
        /\ NodeAt(ast, p).type = "CallExpression"
        /\ getRequireSource(NodeAt(ast, p)) # <<>>
        /\ ServerOnly(getRequireSource(NodeAt(ast, p))[1])}

\* the require call is the initializer of a variable declarator
Initializer(p) ==
    /\ Len(p) >= 2
    /\ NodeAt(ast, Parent(p)).type = "VariableDeclarator"
    /\ p[Len(p)] = 2

\* the diagnostics attributed to a require call (to its argument)
ReportsOnRequire(p) == {k \in 1..Len(reports) : reports[k].node = p \o <<2>>}

\* C11: a require of a server-only module whose call lies inside a boundary
\* scope gets no diagnostic, however often and wherever its variables are
\* read and whatever reportUnusedImports says.
C11_RequireInsideBoundarySilent ==
    Finished =>
        \A p \in ServerRequireCalls : Confined(p) => ReportsOnRequire(p) = {}

\* C11 happens: with reportUnusedImports on, a variable bound by a require
\* inside a boundary scope is never read, and the require is not reported
C11_Witness ==
    /\ Finished
    /\ reportUnusedImportsOf(options)
    /\ \E k \in 1..Len(serverOnlyRequires) :
          /\ Confined(serverOnlyRequires[k].node)
          /\ valueReferences(serverOnlyRequires[k].variables[1]) = <<>>
          /\ ReportsOnRequire(serverOnlyRequires[k].node) = {}

\* C12: in a file without the marker, a require of a server-only module that
\* is not the initializer of a variable declarator gets one serverOnlyRequire
\* diagnostic if it lies outside every boundary scope, and none if it lies
\* inside one.
C12_BareRequire ==
    (Finished /\ ~MarkerPresent(ast)) =>
        \A p \in ServerRequireCalls :
            ~Initializer(p) =>
                /\ ~Confined(p) =>
                      /\ Cardinality(ReportsOnRequire(p)) = 1
                      /\ \A k \in ReportsOnRequire(p) :
                            reports[k].messageId = "serverOnlyRequire"
                /\ Confined(p) => ReportsOnRequire(p) = {}

\* C12 happens: of two requires that are arguments of a call, the one at top
\* level is reported once and the one inside a boundary scope is not
C12_Witness ==
    /\ Finished
    /\ ~MarkerPresent(ast)
    /\ \E p, q \in ServerRequireCalls :
          /\ ~Initializer(p) /\ ~Initializer(q)
          /\ NodeAt(ast, Parent(p)).type = "CallExpression"
          /\ NodeAt(ast, Parent(q)).type = "CallExpression"
          /\ ~Confined(p) /\ Cardinality(ReportsOnRequire(p)) = 1
          /\ Confined(q) /\ ReportsOnRequire(q) = {}

RECURSIVE RootOfChain(_)
\* the call a method-call chain starts with: from a call, through the object
\* of its callee as long as that is a call
RootOfChain(p) ==
    LET callee == NodeAt(ast, p).callee
    IN IF callee.type = "MemberExpression" /\ callee.object.type = "CallExpression"
         THEN RootOfChain(p \o <<1, 1>>)
         ELSE p

\* the calls of the chains whose root call has a bare identifier named in
\* serverFunctionNames as its callee
BoundaryCalls ==
    {p \in Range(Walk(ast)) :
        /\ NodeAt(ast, p).type = "CallExpression"
        /\ NodeAt(ast, RootOfChain(p)).callee.type = "Identifier"
        /\ NodeAt(ast, RootOfChain(p)).callee.name \in
              Range(OrElse(options.serverFunctionNames, DEFAULT_SERVER_FUNCTION_NAMES))}

\* the function-valued arguments of a call
FunctionArguments(p) ==
    {p \o <<j + 1>> : j \in {k \in 1..Len(NodeAt(ast, p).arguments) :
        NodeAt(ast, p).arguments[k].type \in
            {"ArrowFunctionExpression", "FunctionExpression"}}}

\* C13: with checkServerFunctions on, at the end of the traversal every arrow
\* function or function expression that is an argument of a call of a chain
\* whose root is a server function call (root, intermediate or terminal) is
\* a registered boundary scope.
C13_ChainCallbacksRegistered ==
    (Finished /\ OrElse(options.checkServerFunctions, TRUE)) =>
        \A p \in BoundaryCalls : FunctionArguments(p) \subseteq serverFunctionScopes

\* C13 happens: a chain of three calls with a callback at each of them, one a
\* function expression and one a second argument, all three registered
C13_Witness ==
    /\ Finished
    /\ \E p \in BoundaryCalls :
          /\ RootOfChain(p) = p \o <<1, 1, 1, 1>>
          /\ \A q \in {p, p \o <<1, 1>>, p \o <<1, 1, 1, 1>>} : FunctionArguments(q) # {}
          /\ \E f \in FunctionArguments(p \o <<1, 1>>) :
                NodeAt(ast, f).type = "FunctionExpression"
          /\ p \o <<1, 1, 1, 1, 3>> \in serverFunctionScopes
    /\ Cardinality(serverFunctionScopes) = 3

\* the file is not analysed: no callback runs and nothing is reported
Skipped == phase # "traverse" /\ reports = <<>>

\* C14: serverFilePatterns given by the user are added to the default server
\* patterns, clientFilePatterns given by the user take the place of the
\* default client patterns: with clientFilePatterns given, in 'client-only'
\* mode a path that matches only default client patterns is not analysed and
\* one that matches a given pattern is; with serverFilePatterns given, a path
\* that matches a default or a given server pattern is skipped.
C14_PatternsMergedAndReplaced ==
    phase # "idle" =>
        /\ ( /\ Given(options.clientFilePatterns)
             /\ OrElse(options.mode, "client-only") = "client-only"
             /\ ~isMatch(options.clientFilePatterns[1], filename) )
           => Skipped
        /\ ( /\ Given(options.clientFilePatterns)
             /\ isMatch(options.clientFilePatterns[1], filename)
             /\ ~IgnoredPath /\ ~ServerPath /\ Finished )
           => reports # <<>>
        /\ ( /\ Given(options.serverFilePatterns)
             /\ \/ isMatch(DEFAULT_SERVER_FILE_PATTERNS, filename)
                \/ isMatch(options.serverFilePatterns[1], filename) )
           => Skipped

\* C14 happens: under clientFilePatterns ['**/views/**'] and serverFilePatterns
\* ['**/backend/**'], in 'client-only' mode, a file below routes (a default
\* client pattern, no server pattern) is done without having been analysed
C14_Witness ==
    /\ Finished
    /\ Skipped
    /\ ~IgnoredPath
    /\ Given(options.clientFilePatterns)
    /\ options.clientFilePatterns[1] # <<>>
    /\ Given(options.serverFilePatterns)
    /\ OrElse(options.mode, "client-only") = "client-only"
    /\ isMatch(DEFAULT_CLIENT_FILE_PATTERNS, filename)
    /\ ~ServerPath

\* statement i of the file is a string literal on its own
StringStatement(i) ==
    /\ ast.body[i].type = "ExpressionStatement"
    /\ ast.body[i].expression.type = "Literal"

\* 'use client' is one of the directives the file starts with
UseClientPrologue ==
    \E i \in Statements :
        /\ \A j \in 1..i : StringStatement(j)
        /\ ast.body[i].expression.value = use_client

\* C15: every diagnostic carries exactly one suggestion, suggestServerOnlyMarker,
\* also when the file holds the marker already, unless 'use client' is among
\* the directives the file starts with; then it carries none.
C15_OneSuggestionUnlessUseClient ==
    \A k \in 1..Len(reports) :
        IF UseClientPrologue
          THEN reports[k].suggest = <<>>
          ELSE reports[k].suggest = <<"suggestServerOnlyMarker">>

\* C15 happens: with checkServerOnlyMarker off, a file that holds the marker
\* import, and 'use client' only after its declarations, is reported and the
\* diagnostic carries the one suggestion
C15_Witness ==
    /\ Finished
    /\ MarkerPresent(ast)
    /\ ~UseClientPrologue
    /\ \E i \in Statements : StringStatement(i) /\ ast.body[i].expression.value = use_client
    /\ reports # <<>>
    /\ \A k \in 1..Len(reports) : Len(reports[k].suggest) = 1

\* the analyses finished so far, the running one included once it is done
FinishedRuns ==
    runs \cup (IF Finished
                 THEN {[options |-> options, filename |-> filename, ast |-> ast,
                        reports |-> reports]}
                 ELSE {})

\* C17: two analyses of the same tree under the same options give the same
\* diagnostics, whatever was analysed before or in between, and an analysis
\* starts with the marker flag unset and with no binding, require record,
\* candidate or boundary scope.
C17_AnalysesIndependent ==
    /\ \A r1, r2 \in FinishedRuns :
          (r1.options = r2.options /\ r1.filename = r2.filename /\ r1.ast = r2.ast)
          => r1.reports = r2.reports
    /\ (phase = "traverse" /\ queue = VisitOrder(ast)) =>
          /\ ~hasServerOnlyImport
          /\ serverOnlyImports = <<>>
          /\ serverOnlyRequires = <<>>
          /\ bareRequireViolations = <<>>
          /\ sideEffectImportViolations = <<>>
          /\ reexportViolations = <<>>
          /\ serverFunctionScopes = {}

\* C17 happens: a file is reported a second time as it was the first time,
\* with a file that holds the marker analysed before it
C17_Witness ==
    /\ Finished
    /\ reports # <<>>
    /\ serverFunctionScopes = {}
    /\ \E r1, r2 \in runs :
          /\ r1.reports = <<>>
          /\ MarkerPresent(r1.ast)
          /\ r2.options = options /\ r2.ast = ast /\ r2.reports = reports

\* a node lies inside a function that is an argument of a call of a server
\* function chain, wherever in the file that call stands
LexicallyConfined(node) ==
    /\ OrElse(options.checkServerFunctions, TRUE)
    /\ \E p \in BoundaryCalls : \E f \in FunctionArguments(p) : IsPrefix(f, node)

\* C19: the callbacks report nothing, every diagnostic comes from the
\* finalization at the end of the file; and whether an import is reported
\* depends on where its reads stand relative to the boundary callbacks of the
\* whole file, not on whether the boundary call comes before or after the
\* import and its reads.
C19_VerdictAtEndOfFile ==
    /\ reports # <<>> => Finished
    /\ (Finished /\ ~MarkerPresent(ast)) =>
          \A i \in Statements :
              (ServerImport(i) /\ ValueBindings(i) # {}) =>
                  (ReportsAt(i) # {} <=>
                      \/ /\ OrElse(options.reportUnusedImports, TRUE)
                         /\ \E name \in ValueBindings(i) : ReadsOf(name) = {}
                      \/ \E name \in ValueBindings(i) :
                            \E r \in ReadsOf(name) : ~LexicallyConfined(r))

\* C19 happens: the boundary call stands before the import whose only read is
\* inside its callback, and the import is not reported
C19_Witness ==
    /\ Finished
    /\ \E i \in Statements :
          /\ ServerImport(i)
          /\ \E name \in ValueBindings(i) :
                /\ ReadsOf(name) # {}
                /\ \A r \in ReadsOf(name) :
                      \E scope \in serverFunctionScopes :
                          IsPrefix(scope, r) /\ scope[1] < i
          /\ ReportsAt(i) = {}

\* the identifiers of this name that are read (not the id of a declarator)
Mentions(name) ==
    {p \in Range(Walk(ast)) :
        /\ NodeAt(ast, p).type = "Identifier"
        /\ NodeAt(ast, p).name = name
        /\ ~(NodeAt(ast, Parent(p)).type = "VariableDeclarator" /\ p[Len(p)] = 1)}

\* the node lies inside a boundary callback that declares the name itself
Redeclared(node, name) ==
    \E scope \in serverFunctionScopes :
        /\ IsPrefix(scope, node)
        /\ \E k \in 1..Len(NodeAt(ast, scope).body.body) :
              LET stmt == NodeAt(ast, scope).body.body[k]
              IN /\ stmt.type = "VariableDeclaration"
                 /\ \E d \in 1..Len(stmt.declarations) : stmt.declarations[d].id.name = name

\* C20: when a boundary callback declares a name of its own that a server-only
\* import binds, the reads of the name inside that callback are not reads of
\* the import; an import whose name is read nowhere else is reported under
\* the default reportUnusedImports.
C20_ShadowedReadsDoNotCount ==
    (Finished /\ ~MarkerPresent(ast)) =>
        \A i \in Statements :
            ServerImport(i) =>
                \A name \in ValueBindings(i) :
                    /\ \A p \in Mentions(name) : Redeclared(p, name) => p \notin ReadsOf(name)
                    /\ ( /\ Mentions(name) # {}
                         /\ \A p \in Mentions(name) : Redeclared(p, name)
                         /\ options.reportUnusedImports = <<>> )
                       => ReportsAt(i) # {}

\* C20 happens: an import whose name is read only inside a boundary callback
\* that redeclares it is reported under the default options
C20_Witness ==
    /\ Finished
    /\ options = NoOptions
    /\ \E i \in Statements :
          /\ ServerImport(i)
          /\ \E name \in ValueBindings(i) :
                /\ Mentions(name) # {}
                /\ \A p \in Mentions(name) : Redeclared(p, name)
          /\ ReportsAt(i) # {}

\* ------------------------------------------------------------------------
\* C21: the node a diagnostic is attributed to
\* ------------------------------------------------------------------------

\* the node is the module-specifier literal of an import or export
\* declaration, or the string-literal argument of a require call
SpecifierLiteral(p) ==
    /\ HasParent(p)
    /\ NodeAt(ast, p).type = "Literal"
    /\ LET parent == NodeAt(ast, Parent(p))
       IN \/ /\ parent.type \in {"ImportDeclaration", "ExportAllDeclaration",
                                 "ExportNamedDeclaration"}
             /\ p = SourceOf(ast, Parent(p))
          \/ /\ parent.type = "CallExpression"
             /\ Given(getRequireSource(parent))
             /\ p = ArgumentOf(Parent(p), 1)

\* C21: every diagnostic, whatever its reason (side-effect imports included),
\* is attributed to the module-specifier string literal of the offending
\* import, export or require.
C21_AttributedToSpecifier ==
    \A k \in 1..Len(reports) : SpecifierLiteral(reports[k].node)

\* ------------------------------------------------------------------------
\* C22, C23: where the fix inserts the marker, and applying it again
\* ------------------------------------------------------------------------

\* the number of string statements a file starts with
RECURSIVE LeadingStrings(_)
LeadingStrings(body) ==
    IF body = <<>> THEN 0
    ELSE IF Head(body).type = "ExpressionStatement" /\ Head(body).expression.type = "Literal"
           THEN 1 + LeadingStrings(Tail(body))
           ELSE 0

\* the k-th fix applied inserted the marker import
InsertedMarker(k) == edits[k].edit.inserted = <<"import", " ", "'server-only'", ";", "\n">>

HoldsMarkerImport(source) ==
    \E i \in 1..Len(Parse(source).body) :
        /\ Parse(source).body[i].type = "ImportDeclaration"
        /\ Parse(source).body[i].source.value = server_only

\* C23: applied to a text that holds the marker import, the fix inserts the
\* empty text and leaves the text as it is; so the second of two applications
\* changes nothing.
C23_FixIdempotent ==
    /\ \A k \in 1..Len(edits) :
          HoldsMarkerImport(edits[k].before) =>
             /\ edits[k].edit.inserted = <<>>
             /\ Applied(edits[k].before, edits[k].edit) = edits[k].before
    /\ Len(edits) >= 2 => Applied(edits[2].before, edits[2].edit) = edits[2].before

\* ------------------------------------------------------------------------
\* C24: where the marker counts
\* ------------------------------------------------------------------------

\* node p is the marker: an import of 'server-only' or a require of it
IsMarker(p) ==
    LET n == NodeAt(ast, p)
    IN \/ n.type = "ImportDeclaration" /\ n.source.value = server_only
       \/ n.type = "CallExpression" /\ getRequireSource(n) = <<server_only>>

\* the marker stands at module top level: no function is around it
TopLevelMarker ==
    \E p \in Range(Walk(ast)) : IsMarker(p) /\ EnclosingScope(ast, p) = <<>>

\* the marker stands inside a function
NestedMarker ==
    \E p \in Range(Walk(ast)) : IsMarker(p) /\ EnclosingScope(ast, p) # <<>>

\* C24 as stated: the marker state is true only if the marker stands at module
\* top level; a marker require inside a function does not set it and does not
\* suppress the diagnostics of the file.
C24_MarkerAtTopLevelOnly ==
    /\ hasServerOnlyImport => TopLevelMarker
    /\ (Finished /\ NestedMarker /\ ~TopLevelMarker) => reports # <<>>

\* C24, amended: with checkServerOnlyMarker on, the marker state of a finished
\* analysis is true exactly if the file holds the marker import or a require of
\* 'server-only' anywhere, inside a function or not, and a file whose marker
\* state is true gets no diagnostic.
C24_MarkerAnywhere ==
    Finished =>
        /\ hasServerOnlyImport <=>
              (OrElse(options.checkServerOnlyMarker, TRUE) /\
               (TopLevelMarker \/ NestedMarker))
        /\ hasServerOnlyImport => reports = <<>>

\* C24 happens: the only marker of a file that holds a violating declaration
\* is a require inside a function, the option is on, and the finished analysis
\* has the marker state set and no diagnostic
C24_Witness ==
    /\ Finished
    /\ OrElse(options.checkServerOnlyMarker, TRUE)
    /\ NestedMarker
    /\ ~TopLevelMarker
    /\ hasServerOnlyImport
    /\ Len(sideEffectImportViolations) + Len(reexportViolations)
         + Len(bareRequireViolations) + Len(serverOnlyRequires)
         + Len(serverOnlyImports) > 0
    /\ reports = <<>>

\* ------------------------------------------------------------------------
\* C25: one unconfined read more, one less
\* ------------------------------------------------------------------------

\* a sequence without its i-th element
Without(s, i) == SubSeq(s, 1, i - 1) \o SubSeq(s, i + 1, Len(s))

\* a statement that reads a outside every boundary scope: at top level, or
\* inside a callback of a call that is no server function
UnconfinedReadOf(stmt) ==
    \/ stmt = ExpressionStatement(CallExpression(Identifier("a"), <<>>))
    \/ /\ stmt.type = "ExpressionStatement"
       /\ stmt.expression.type = "CallExpression"
       /\ stmt.expression.callee = Identifier("other")
       /\ stmt.expression.arguments =
             <<ArrowFunctionExpression(
                 <<ExpressionStatement(CallExpression(Identifier("a"), <<>>))>>)>>

\* larger is smaller with one more read of a outside every boundary scope
OneReadMore(smaller, larger) ==
    \E i \in 2..Len(larger.body) :
        /\ UnconfinedReadOf(larger.body[i])
        /\ Without(larger.body, i) = smaller.body

\* the analyses the host has finished under the options of the running one
SameOptions == {r \in runs : r.options = options /\ r.filename = filename}

AfterOtherRoot ==
    /\ Called
    /\ call[1].previous # <<>>
    /\ call[1].previous[1].projectRoot # call[1].projectRoot

\* C26: the cache holds at most one pair of project root and framework, its
\* two slots are both set or both empty, after a call they hold the root and
\* the result of that call, and a call that follows a call for another root
\* is not answered by the cache: it checks the files again.
C26_OneSlot ==
    /\ Len(cachedProjectRoot) <= 1
    /\ Len(cachedFramework) <= 1
    /\ cachedProjectRoot = <<>> <=> cachedFramework = <<>>
    /\ Called => /\ cachedProjectRoot = <<call[1].projectRoot>>
                 /\ cachedFramework = <<call[1].framework>>
    /\ ~Called => cachedProjectRoot = <<>>
    /\ AfterOtherRoot => /\ ~call[1].hit
                         /\ "config files" \in call[1].consulted
                         /\ call[1].framework = Detected

\* C26 happens: a root that was detected before is detected again right after
\* a call for another root, and the files are checked again
C26_Witness ==
    /\ AfterOtherRoot
    /\ call[1].before # <<>>
    /\ ~call[1].hit
    /\ call[1].framework # call[1].before[1]
    /\ cachedProjectRoot = <<call[1].projectRoot>>

\* ------------------------------------------------------------------------
\* C27: one diagnostic for each declaration that violates
\* ------------------------------------------------------------------------

\* statement i is a server-only import with value bindings or a tracked require
TrackedDeclaration(i) ==
    \/ ServerImport(i) /\ Bindings(i) # {}
    \/ ServerRequire(i)

\* one of its bindings has a read outside every boundary scope, or has no read
\* while unused imports are reported
Violating(i) ==
    \/ Unconfined(i)
    \/ Unused(i) /\ OrElse(options.reportUnusedImports, TRUE)

\* the reads of the bindings of statement i outside every boundary scope
UnconfinedReads(i) ==
    {r \in UNION {ReadsOf(name) : name \in Bindings(i)} : ~Confined(r)}

\* C27: a violating import declaration or tracked require gets exactly one
\* diagnostic, however many bindings violate and however many unconfined
\* reads there are, one that does not violate gets none, and two violating
\* declarations of one module get one each.
C27_OneDiagnosticPerDeclaration ==
    Finished =>
        /\ \A i \in Statements :
              TrackedDeclaration(i) =>
                  Cardinality(ReportsAt(i)) = IF Violating(i) THEN 1 ELSE 0
        /\ Len(reports) =
              Cardinality({i \in Statements : TrackedDeclaration(i) /\ Violating(i)})

\* C27 happens: two declarations of fs, the first with two bindings that both
\* violate and three reads outside the boundary scopes, each got one diagnostic
C27_Witness ==
    /\ Finished
    /\ Len(ast.body) >= 2
    /\ ServerImport(1)
    /\ Cardinality(Bindings(1)) = 2
    /\ \A name \in Bindings(1) : \E r \in ReadsOf(name) : ~Confined(r)
    /\ Cardinality(UnconfinedReads(1)) >= 3
    /\ TrackedDeclaration(2)
    /\ Violating(2)
    /\ Cardinality(ReportsAt(1)) = 1
    /\ Cardinality(ReportsAt(2)) = 1
    /\ Len(reports) = 2

\* ------------------------------------------------------------------------
\* C28: the declarator a require belongs to
\* ------------------------------------------------------------------------

\* the declarators of the first statement whose initializer requires a
\* server-only module
RequireDeclarators ==
    {j \in 1..Len(ast.body[1].declarations) :
        /\ getRequireSource(ast.body[1].declarations[j].init) # <<>>
        /\ ServerOnly(getRequireSource(ast.body[1].declarations[j].init)[1])}

\* the name declarator j binds violates: it is read outside every boundary
\* scope, or it is not read while unused imports are reported
OwnNameViolates(j) ==
    LET name == ast.body[1].declarations[j].id.name
    IN \/ \E r \in ReadsOf(name) : ~Confined(r)
       \/ ReadsOf(name) = {} /\ OrElse(options.reportUnusedImports, TRUE)

\* the require of declarator j got a diagnostic
RequireReported(j) == \E k \in 1..Len(reports) : reports[k].node = <<1, j, 2, 2>>

\* C28: a tracked require is reported exactly if the name its own declarator
\* binds violates; the reads of a variable that another declarator of the
\* statement declares neither cause nor prevent the diagnostic.
C28_OwnDeclaratorOnly ==
    Finished =>
        \A j \in RequireDeclarators : RequireReported(j) <=> OwnNameViolates(j)

\* ------------------------------------------------------------------------
\* C29: what is registered as a boundary scope
\* ------------------------------------------------------------------------

\* C29: every registered boundary scope is a function argument of a call of a
\* chain whose root is a server function call; a function handed to a call
\* that only has a member expression of the chain among its arguments, or a
\* chain call as the computed property of its callee, is not registered.
C29_OnlyChainArguments ==
    serverFunctionScopes \subseteq UNION {FunctionArguments(p) : p \in BoundaryCalls}

\* ------------------------------------------------------------------------
\* C30: the Detect Framework command of the editor extension
\* ------------------------------------------------------------------------

\* what a detection from nothing finds for a folder on the file system
DerivedFromDisk(folderPath) == detect(disk, projectRootOf(disk, <<folderPath>>))

\* the command Detect Framework was the last thing to happen
AfterDetectFramework == command # <<>> /\ command[1].name = "detectFramework"

\* C30: once the Detect Framework command has run, every workspace folder has
\* a status bar item, the item names the framework that a detection from
\* nothing finds for the folder on the file system as it is, and the cache per
\* folder holds that same framework: nothing cached before the command is left.
C30_CommandRescans ==
    AfterDetectFramework =>
        \A i \in 1..Len(workspaceFolders) :
            LET folderPath == workspaceFolders[i]
            IN /\ folderPath \in DOMAIN extension.statusBarItems
               /\ folderPath \in DOMAIN extension.frameworkCache
               /\ extension.frameworkCache[folderPath] = DerivedFromDisk(folderPath)
               /\ extension.statusBarItems[folderPath].name
                     = FRAMEWORK_INFO(DerivedFromDisk(folderPath))

\* the command has run in a workspace of MaxFolders folders, and an item that
\* showed a framework cached earlier shows another one now
C30_Witness ==
    /\ AfterDetectFramework
    /\ command[1].changed
    /\ Len(workspaceFolders) = MaxFolders

====
